---- MODULE Spec2Model ----
(***************************************************************************)
(* State-machine model of the ESP32Metrics facade (src/src/ESP32Metrics.c). *)
(* One action per public operation; the capability providers (scheduler    *)
(* statistics, radio, temperature sensor, reset-cause reader, clock, heap) *)
(* are inputs drawn from small sets.                                       *)
(***************************************************************************)
EXTENDS Integers, Sequences, FiniteSets, TLC

(***************************************************************************)
(* Bounds of the model.                                                    *)
(***************************************************************************)
\* The error_count at which the model stops calling IncrementErrorCount.
MaxErrorCount == 3
\* The monotonic clock is read at most this many half-milliseconds after boot.
MaxClockTicks == 3

(***************************************************************************)
(* IEEE-754 binary32 arithmetic, as the C expressions on `float` use it.   *)
(* A finite float is sign s, significand m and exponent e: its value is    *)
(* (-1)^s * m * 2^e, with 2^23 <= m < 2^24 unless it is zero.              *)
(***************************************************************************)
\* Width of the significand of a C float.
FloatPrec == 24

RECURSIVE Pow2(_)
Pow2(n) == IF n = 0 THEN 1 ELSE 2 * Pow2(n - 1)

RECURSIVE BitLen(_)
BitLen(n) == IF n = 0 THEN 0 ELSE 1 + BitLen(n \div 2)

NaN == [nan |-> TRUE, s |-> 0, m |-> 0, e |-> 0]
FZero == [nan |-> FALSE, s |-> 0, m |-> 0, e |-> 0]

\* Round the exact value (-1)^s * (M + f) * 2^e to the nearest float, ties to
\* even, where 0 <= f < 1 is nonzero iff sticky. M carries at least
\* FloatPrec + 1 bits whenever sticky is set.
RoundNE(s, M, e, sticky) ==
    IF M = 0 THEN FZero
    ELSE LET len == BitLen(M) IN
         IF len <= FloatPrec
         THEN [nan |-> FALSE, s |-> s, m |-> M * Pow2(FloatPrec - len),
               e |-> e - (FloatPrec - len)]
         ELSE LET k    == len - FloatPrec
                  q    == M \div Pow2(k)
                  r    == M % Pow2(k)
                  half == Pow2(k - 1)
                  up   == \/ r > half
                          \/ r = half /\ sticky
                          \/ r = half /\ ~sticky /\ q % 2 = 1
                  q1   == IF up THEN q + 1 ELSE q
              IN IF q1 = Pow2(FloatPrec)
                 THEN [nan |-> FALSE, s |-> s, m |-> Pow2(FloatPrec - 1), e |-> e + k + 1]
                 ELSE [nan |-> FALSE, s |-> s, m |-> q1, e |-> e + k]

\* (float)n for a small non-negative integer constant or reading.
FloatOfNat(n) == RoundNE(0, n, 0, FALSE)

\* A significand with its trailing zero bits moved into the exponent.
RECURSIVE OddPart(_)
OddPart(f) == IF f.m # 0 /\ f.m % 2 = 0
              THEN OddPart([f EXCEPT !.m = f.m \div 2, !.e = f.e + 1])
              ELSE f

\* a * b, for a factor b whose odd part is small (a literal such as 100.0f).
FMul(a, b) ==
    IF a.nan \/ b.nan THEN NaN
    ELSE LET ob == OddPart(b)
             sg == (a.s + b.s) % 2
         IN IF a.m = 0 \/ b.m = 0 THEN [FZero EXCEPT !.s = sg]
            ELSE RoundNE(sg, a.m * ob.m, a.e + ob.e, FALSE)

\* Long division: FloatPrec + 2 quotient bits of n / d and the remainder.
RECURSIVE DivBits(_, _, _, _)
DivBits(q, r, d, bits) ==
    IF bits = 0 THEN <<q, r>>
    ELSE LET r2 == 2 * r
         IN IF r2 >= d THEN DivBits(2 * q + 1, r2 - d, d, bits - 1)
                       ELSE DivBits(2 * q, r2, d, bits - 1)

\* a / b for finite a and finite nonzero b.
FDiv(a, b) ==
    IF a.nan \/ b.nan \/ b.m = 0 THEN NaN
    ELSE LET sg == (a.s + b.s) % 2
         IN IF a.m = 0 THEN [FZero EXCEPT !.s = sg]
            ELSE LET qr == DivBits(a.m \div b.m, a.m % b.m, b.m, FloatPrec + 2)
                 IN RoundNE(sg, qr[1], a.e - b.e - (FloatPrec + 2), qr[2] # 0)

\* x shifted right by d bits, the bits shifted out kept as a sticky low bit.
ShrSticky(x, d) ==
    IF d = 0 THEN x
    ELSE IF d >= 31 THEN (IF x # 0 THEN 1 ELSE 0)
    ELSE LET q == x \div Pow2(d)
         IN IF x % Pow2(d) # 0 /\ q % 2 = 0 THEN q + 1 ELSE q

\* a - b for non-negative finite a and b: the operands are aligned with three
\* guard bits (bits shifted out are kept sticky), subtracted, rounded once.
FSub(a, b) ==
    IF a.nan \/ b.nan THEN NaN
    ELSE IF b.m = 0 THEN a
    ELSE IF a.m = 0 THEN [b EXCEPT !.s = 1 - b.s]
    ELSE LET hi == IF a.e <= b.e THEN b.e ELSE a.e
             A  == ShrSticky(a.m * 8, hi - a.e)
             B  == ShrSticky(b.m * 8, hi - b.e)
         IN IF A = B THEN FZero
            ELSE IF A > B THEN RoundNE(0, A - B, hi - 3, FALSE)
            ELSE RoundNE(1, B - A, hi - 3, FALSE)

\* a <= b on finite floats (NaN compares false with everything).
FLe(a, b) ==
    /\ ~a.nan /\ ~b.nan
    /\ \/ a.m = 0 /\ (b.m = 0 \/ b.s = 0)
       \/ a.m # 0 /\ a.s = 1 /\ (b.m = 0 \/ b.s = 0)
       \/ a.m # 0 /\ a.s = 1 /\ b.m # 0 /\ b.s = 1
            /\ (a.e > b.e \/ (a.e = b.e /\ a.m >= b.m))
       \/ a.m # 0 /\ a.s = 0 /\ b.m # 0 /\ b.s = 0
            /\ (a.e < b.e \/ (a.e = b.e /\ a.m <= b.m))

(***************************************************************************)
(* uint32_t. The run-time counters are naturals below 2^31; a difference   *)
(* of two of them, which wraps modulo 2^32, is held as two 16-bit halves   *)
(* (value = hi * 2^16 + lo) so that every value of the type has a place.   *)
(***************************************************************************)
Half == Pow2(16)

U32(n) == [hi |-> n \div Half, lo |-> n % Half]

\* a - b in uint32_t arithmetic (ESP32Metrics.c:146-147).
Sub32(a, b) ==
    IF a >= b THEN U32(a - b)
    ELSE LET d == (b - a) - 1      \* 2^32 - (b - a) = (2^32 - 1) - d
         IN [hi |-> (Half - 1) - (d \div Half), lo |-> (Half - 1) - (d % Half)]

\* UINT32_MAX.
Max32 == [hi |-> Half - 1, lo |-> Half - 1]

\* x + 1 and x - 1 in uint32_t arithmetic.
Inc32(x) ==
    IF x.lo < Half - 1 THEN [x EXCEPT !.lo = x.lo + 1]
    ELSE IF x.hi < Half - 1 THEN [hi |-> x.hi + 1, lo |-> 0]
    ELSE [hi |-> 0, lo |-> 0]
Dec32(x) ==
    IF x.lo > 0 THEN [x EXCEPT !.lo = x.lo - 1]
    ELSE IF x.hi > 0 THEN [hi |-> x.hi - 1, lo |-> Half - 1]
    ELSE Max32

\* a + b in uint32_t arithmetic.
Add32(a, b) ==
    LET lo == a.lo + b.lo
    IN [hi |-> (a.hi + b.hi + lo \div Half) % Half, lo |-> lo % Half]

\* a <= b on uint32_t.
Le32(a, b) == a.hi < b.hi \/ (a.hi = b.hi /\ a.lo <= b.lo)

\* (float)x for a uint32_t x.
FloatOfU32(x) ==
    IF x.hi < Pow2(15)
    THEN RoundNE(0, x.hi * Half + x.lo, 0, FALSE)
    ELSE RoundNE(0, x.hi * Pow2(15) + (x.lo \div 2), 1, x.lo % 2 = 1)

\* 100.0f - ((float)idle_delta * 100.0f / (float)total_delta)  (ESP32Metrics.c:150)
UsageOf(idle_delta, total_delta) ==
    FSub(FloatOfNat(100),
         FDiv(FMul(FloatOfU32(idle_delta), FloatOfNat(100)), FloatOfU32(total_delta)))

(***************************************************************************)
(* Values of the platform types the facade passes around.                  *)
(***************************************************************************)
NULL == "NULL"

\* s_reset_reason_strings (ESP32Metrics.c:28-41).
s_reset_reason_strings ==
    << "Unknown", "Power-on reset", "External pin reset", "Software reset",
       "Watchdog reset", "Interrupt watchdog reset", "Task watchdog reset",
       "Other watchdog reset", "Brownout reset", "SDIO reset",
       "Deepsleep reset", "Bootstrapping reset" >>

\* esp_reset_reason_t value of ESP_RST_BROWNOUT in the platform's esp_system.h
\* (UNKNOWN, POWERON, EXT, SW, PANIC, INT_WDT, TASK_WDT, WDT, DEEPSLEEP,
\* BROWNOUT, ...), compared against at ESP32Metrics.c:78.
ESP_RST_BROWNOUT == 9

\* What esp_reset_reason() may report: the first and the last index of the
\* label table, power-on, brownout, a code past the end of the table, a
\* negative code.
ResetCodes == {0, 1, ESP_RST_BROWNOUT, 11, 12, -1}

\* Readings the temperature sensor delivers, in degrees Celsius.
Temps == {FloatOfNat(25), FloatOfNat(30)}

\* Outcomes of temp_sensor_read_celsius(&x): success stores the reading; a
\* failure either leaves x alone or, for a reading outside the configured
\* range, stores it and fails.
SensorReads ==
    [rc : {"ESP_OK"}, wrote : {TRUE}, val : Temps]
    \cup {[rc |-> "ESP_FAIL", wrote |-> FALSE, val |-> FZero],
          [rc |-> "ESP_ERR_INVALID_STATE", wrote |-> TRUE, val |-> FloatOfNat(85)]}

\* Outcomes of the sensor's configure and start steps.
SensorRets == {"ESP_OK", "ESP_FAIL"}

\* A scheduler snapshot: the total run-time counter and the task list
\* uxTaskGetSystemState fills (name, ulRunTimeCounter).
Task(n, c) == [pcTaskName |-> n, ulRunTimeCounter |-> c]
Snap(t, l) == [total |-> t, tasks |-> l]
Snapshots ==
    { Snap(0, << >>),                                   \* array too small: nothing filled
      Snap(4, << Task("main", 3), Task("IDLE", 1) >>),
      Snap(8, << Task("IDLE", 3), Task("main", 5) >>),
      Snap(8, << Task("IDLE0", 3), Task("main", 5) >>), \* no task named IDLE
      Snap(12, << Task("main", 1), Task("IDLE", 11), Task("IDLE", 2) >>),
      Snap(671095, << Task("IDLE", 671092), Task("main", 3) >>) }

\* Monotonic clock readings, in microseconds.
ClockReadings == {t * 500 : t \in 0..MaxClockTicks}

(***************************************************************************)
(* State.                                                                  *)
(***************************************************************************)
VARIABLES
    s_metrics,     \* the static ESP32Metrics_t record (ESP32Metrics.c:24)
    sensor_on,     \* the temperature sensor driver is started
    clock_us,      \* last reading of esp_timer_get_time()
    heap_held,     \* task-list buffers malloc'ed and not yet freed
    op,            \* the last public call
    mtype,         \* its metric type when it is GetMetric, else NULL
    ret,           \* the esp_err_t it returned
    out,           \* its output parameter: written?, value
    calls,         \* the provider calls it made, in order
    pre,           \* s_metrics as it was when the call began
    cpu_calls,     \* GetCpuUsage successes since the last initializing Init:
                   \* 0, 1, or 2 for two and more
    stale_sample,  \* that Init found a CPU sample left by an earlier session
    incs,          \* IncrementErrorCount calls completed since that Init,
                   \* counted in uint32_t like the counter itself
    null_out,      \* the call was handed NULL for its output parameter
    cpu_task,      \* per calling task: where it stands inside GetCpuUsage
                   \* when the call is followed statement by statement
    excl,          \* the callers' mutex around GetCpuUsage: its holder, and
                   \* whether some call of the session ran without taking it
    inc_task       \* per calling task: where it stands inside
                   \* IncrementErrorCount, and the error_count it has loaded

vars == << s_metrics, sensor_on, clock_us, heap_held, op, mtype, ret, out,
           calls, pre, cpu_calls, stale_sample, incs, null_out, cpu_task, excl,
           inc_task >>

NoOut == [w |-> FALSE, v |-> 0]
\* A provider call and what it answered ("-" when the caller takes no status).
P(fn, rc) == [fn |-> fn, rc |-> rc]
\* A provider call, its status, and what it stored through its out-pointer.
Answer(fn, rc, ans) == [fn |-> fn, rc |-> rc, ans |-> ans]
Wrote(x) == [w |-> TRUE, v |-> x]

\* The tasks that call GetCpuUsage concurrently.
Callers == {"A", "B"}

\* A task outside GetCpuUsage. Inside, its locals are total (total_run_time)
\* and idle (idle_time), bt and bi are the two fields of the previous sample
\* as it read them, usage is the value for *usage; entry is the previous
\* sample that was stored when it entered, guarded whether it holds the mutex.
IdleTask ==
    [ pc |-> "idle", guarded |-> FALSE, entry |-> << 0, 0 >>, total |-> 0,
      idle |-> 0, bt |-> 0, bi |-> 0, usage |-> FZero ]

\* A task outside IncrementErrorCount; inside, reg is the error_count it read.
IdleIncrement == [ pc |-> "idle", reg |-> [hi |-> 0, lo |-> 0] ]

\* static ESP32Metrics_t s_metrics = {0};
ZeroMetrics ==
    [ is_initialized |-> FALSE, brownout_count |-> 0, error_count |-> U32(0),
      last_uptime |-> 0, temp_sensor_enabled |-> FALSE,
      last_temperature |-> FZero,
      reboot_reason |-> [code |-> 0, reason |-> NULL],
      prev_total_run_time |-> 0, prev_idle_time |-> 0 ]

Init ==
    /\ s_metrics = ZeroMetrics
    /\ sensor_on = FALSE
    /\ clock_us = 0
    /\ heap_held = 0
    /\ op = "boot" /\ mtype = NULL /\ ret = "ESP_OK" /\ out = NoOut
    /\ calls = << >>
    /\ pre = ZeroMetrics
    /\ cpu_calls = 0
    /\ stale_sample = FALSE
    /\ incs = U32(0)
    /\ null_out = FALSE
    /\ cpu_task = [t \in Callers |-> IdleTask]
    /\ excl = [holder |-> NULL, bypassed |-> FALSE]
    /\ inc_task = [t \in Callers |-> IdleIncrement]

\* cpu_calls after a call that did, or did not, complete a GetCpuUsage.
CountCpu(succeeded) ==
    IF ~succeeded THEN cpu_calls ELSE IF cpu_calls = 0 THEN 1 ELSE 2

\* Bookkeeping common to every public call.
Call(name, type) == op' = name /\ mtype' = type /\ pre' = s_metrics

(***************************************************************************)
(* update_reboot_reason (ESP32Metrics.c:434-444). `reason` is compared as  *)
(* an unsigned size, so a negative code lies past the end of the table.    *)
(***************************************************************************)
\* Faulty variant: a code outside the table is left without a label.
RebootReasonOfUnlabelled(reason) ==
    [ code |-> reason,
      reason |-> IF reason >= 0 /\ reason < Len(s_reset_reason_strings)
                 THEN s_reset_reason_strings[reason + 1]
                 ELSE NULL ]

RebootReasonOf(reason) ==
    [ code |-> reason,
      reason |-> IF reason >= 0 /\ reason < Len(s_reset_reason_strings)
                 THEN s_reset_reason_strings[reason + 1]
                 ELSE "Unknown reason" ]

(***************************************************************************)
(* ESP32Metrics_Init (ESP32Metrics.c:46-90).                               *)
(***************************************************************************)
\* The sensor part of Init (lines 58-74): the capability flag, the cached
\* temperature, the driver state and the provider calls made.
\* Faulty variant: a sensor that fails to start leaves the cache as it was.
InitSensorNoSentinel(cfg, start, rd) ==
    IF cfg = "ESP_OK"
    THEN IF start = "ESP_OK"
         THEN [ enabled |-> TRUE,
                temp |-> IF rd.wrote THEN rd.val ELSE s_metrics.last_temperature,
                on |-> TRUE,
                calls |-> << P("temp_sensor_config", cfg), P("temp_sensor_start", start),
                             P("temp_sensor_read_celsius", rd.rc) >> ]
         ELSE [ enabled |-> FALSE, temp |-> s_metrics.last_temperature, on |-> sensor_on,
                calls |-> << P("temp_sensor_config", cfg), P("temp_sensor_start", start) >> ]
    ELSE [ enabled |-> FALSE, temp |-> NaN, on |-> sensor_on,
           calls |-> << P("temp_sensor_config", cfg) >> ]

InitSensor(cfg, start, rd) ==
    IF cfg = "ESP_OK"
    THEN IF start = "ESP_OK"
         THEN [ enabled |-> TRUE,
                temp |-> IF rd.wrote THEN rd.val ELSE s_metrics.last_temperature,
                on |-> TRUE,
                calls |-> << P("temp_sensor_config", cfg), P("temp_sensor_start", start),
                             P("temp_sensor_read_celsius", rd.rc) >> ]
         ELSE [ enabled |-> FALSE, temp |-> NaN, on |-> sensor_on,
                calls |-> << P("temp_sensor_config", cfg), P("temp_sensor_start", start) >> ]
    ELSE [ enabled |-> FALSE, temp |-> NaN, on |-> sensor_on,
           calls |-> << P("temp_sensor_config", cfg) >> ]

\* Faulty variant: brownouts are added up from one session to the next.
InitBrownoutCountAccumulated(reason) ==
    s_metrics.brownout_count + (IF reason = ESP_RST_BROWNOUT THEN 1 ELSE 0)

\* brownout_count after Init (lines 52, 78-80).
InitBrownoutCount(reason) == IF reason = ESP_RST_BROWNOUT THEN 1 ELSE 0

\* Faulty variant: Init keeps the error counter of the previous session.
InitErrorCountKept == s_metrics.error_count

\* error_count after Init (line 53).
InitErrorCount == U32(0)

\* Faulty variant: Init keeps the CPU sample of the previous session.
InitPrevSampleKept == << s_metrics.prev_total_run_time, s_metrics.prev_idle_time >>

\* The CPU baseline after Init (lines 83-84).
InitPrevSample == << 0, 0 >>

\* Faulty variant: a second Init zeroes the error counter again.
InitAlreadyRezero ==
    /\ s_metrics.is_initialized
    /\ ret' = "ESP_OK" /\ out' = NoOut /\ calls' = << >>
    /\ s_metrics' = [s_metrics EXCEPT !.error_count = U32(0)]
    /\ UNCHANGED << sensor_on, clock_us, heap_held, cpu_calls, stale_sample, incs >>

InitAlready ==
    /\ s_metrics.is_initialized
    /\ ret' = "ESP_OK" /\ out' = NoOut /\ calls' = << >>
    /\ UNCHANGED << s_metrics, sensor_on, clock_us, heap_held, cpu_calls,
                    stale_sample, incs >>

InitFresh(now, cfg, start, rd, reason) ==
    /\ ~s_metrics.is_initialized
    /\ LET sn == InitSensor(cfg, start, rd) IN
       /\ s_metrics' =
            [ is_initialized |-> TRUE,
              brownout_count |-> InitBrownoutCount(reason),
              error_count |-> InitErrorCount,
              last_uptime |-> now \div 1000,
              temp_sensor_enabled |-> sn.enabled,
              last_temperature |-> sn.temp,
              reboot_reason |-> RebootReasonOf(reason),
              prev_total_run_time |-> InitPrevSample[1],
              prev_idle_time |-> InitPrevSample[2] ]
       /\ sensor_on' = sn.on
       /\ calls' = << P("esp_timer_get_time", "-") >> \o sn.calls
                   \o << Answer("esp_reset_reason", "-", reason) >>
    /\ clock_us' = now
    /\ ret' = "ESP_OK" /\ out' = NoOut
    /\ cpu_calls' = 0 /\ incs' = U32(0)
    /\ stale_sample' = (s_metrics.prev_total_run_time > 0)
    /\ UNCHANGED heap_held

ESP32Metrics_Init(E) ==
    /\ Call("Init", NULL) /\ null_out' = FALSE
    /\ \/ InitAlready
       \/ \E now \in E.clocks, cfg \in E.cfgs, start \in E.starts,
             rd \in E.reads, reason \in E.resets :
             now >= clock_us /\ InitFresh(now, cfg, start, rd, reason)

(***************************************************************************)
(* ESP32Metrics_Deinit (ESP32Metrics.c:92-106).                            *)
(***************************************************************************)
\* Faulty variant: the sensor is stopped but its flag stays set.
ESP32Metrics_DeinitFlagLeft ==
    /\ Call("Deinit", NULL) /\ null_out' = FALSE
    /\ ret' = "ESP_OK" /\ out' = NoOut
    /\ IF ~s_metrics.is_initialized
       THEN /\ calls' = << >>
            /\ UNCHANGED << s_metrics, sensor_on >>
       ELSE /\ s_metrics' = [s_metrics EXCEPT !.is_initialized = FALSE]
            /\ IF s_metrics.temp_sensor_enabled
               THEN calls' = << P("temp_sensor_stop", "-") >> /\ sensor_on' = FALSE
               ELSE calls' = << >> /\ UNCHANGED sensor_on
    /\ UNCHANGED << clock_us, heap_held, cpu_calls, stale_sample, incs >>

\* Faulty variant: the sensor is stopped whether or not it was enabled.
ESP32Metrics_DeinitAlwaysStops ==
    /\ Call("Deinit", NULL) /\ null_out' = FALSE
    /\ ret' = "ESP_OK" /\ out' = NoOut
    /\ IF ~s_metrics.is_initialized
       THEN /\ calls' = << >>
            /\ UNCHANGED << s_metrics, sensor_on >>
       ELSE /\ s_metrics' = [s_metrics EXCEPT !.temp_sensor_enabled = FALSE,
                                              !.is_initialized = FALSE]
            /\ calls' = << P("temp_sensor_stop", "-") >> /\ sensor_on' = FALSE
    /\ UNCHANGED << clock_us, heap_held, cpu_calls, stale_sample, incs >>

ESP32Metrics_Deinit ==
    /\ Call("Deinit", NULL) /\ null_out' = FALSE
    /\ ret' = "ESP_OK" /\ out' = NoOut
    /\ IF ~s_metrics.is_initialized
       THEN /\ calls' = << >>
            /\ UNCHANGED << s_metrics, sensor_on >>
       ELSE /\ s_metrics' = [s_metrics EXCEPT !.temp_sensor_enabled = FALSE,
                                              !.is_initialized = FALSE]
            /\ IF s_metrics.temp_sensor_enabled
               THEN calls' = << P("temp_sensor_stop", "-") >> /\ sensor_on' = FALSE
               ELSE calls' = << >> /\ UNCHANGED sensor_on
    /\ UNCHANGED << clock_us, heap_held, cpu_calls, stale_sample, incs >>

(***************************************************************************)
(* The two checks every getter begins with.                                *)
(***************************************************************************)
\* Faulty variant: the is_initialized check left out.
NotInitializedUnchecked == FALSE

\* if (!s_metrics.is_initialized) return ESP_ERR_INVALID_STATE;
NotInitialized == ~s_metrics.is_initialized

\* A return before anything was touched.
Reject(code) ==
    /\ ret' = code /\ out' = NoOut /\ calls' = << >>
    /\ UNCHANGED << s_metrics, sensor_on, clock_us, heap_held >>

(***************************************************************************)
(* ESP32Metrics_GetCpuUsage (ESP32Metrics.c:112-166).                      *)
(***************************************************************************)
\* The loop of lines 136-142: the counter of the first task named "IDLE",
\* or 0 when there is none.
RECURSIVE IdleTimeOf(_, _)
IdleTimeOf(tasks, i) ==
    IF i > Len(tasks) THEN 0
    ELSE IF tasks[i].pcTaskName = "IDLE" THEN tasks[i].ulRunTimeCounter
    ELSE IdleTimeOf(tasks, i + 1)

\* Lines 145-156: the value written to *usage.
CpuUsageValue(prev_total, prev_idle, total_run_time, idle_time) ==
    IF prev_total > 0
    THEN LET total_delta == Sub32(total_run_time, prev_total)
             idle_delta  == Sub32(idle_time, prev_idle)
         IN IF total_delta # U32(0) THEN UsageOf(idle_delta, total_delta)
                                    ELSE FZero
    ELSE FZero

\* Faulty variant: the failure path stores the still-zero local counters.
CpuNoMemStores ==
    /\ ret' = "ESP_ERR_NO_MEM" /\ out' = NoOut
    /\ calls' = << P("uxTaskGetNumberOfTasks", "-"), P("malloc", NULL) >>
    /\ s_metrics' = [s_metrics EXCEPT !.prev_total_run_time = 0, !.prev_idle_time = 0]
    /\ UNCHANGED heap_held

\* Lines 126-130: what a failed malloc leaves behind.
CpuNoMem ==
    /\ ret' = "ESP_ERR_NO_MEM" /\ out' = NoOut
    /\ calls' = << P("uxTaskGetNumberOfTasks", "-"), P("malloc", NULL) >>
    /\ UNCHANGED << s_metrics, heap_held >>

\* Faulty variant: only the total is stored.
CpuNextSampleTotalOnly(total_run_time, idle_time) ==
    << total_run_time, s_metrics.prev_idle_time >>

\* Faulty variant: the sample is kept when the total has not moved.
CpuNextSampleKeptOnZeroDelta(total_run_time, idle_time) ==
    IF total_run_time = s_metrics.prev_total_run_time
    THEN << s_metrics.prev_total_run_time, s_metrics.prev_idle_time >>
    ELSE << total_run_time, idle_time >>

\* Lines 158-160: the sample stored for the next call.
CpuNextSample(total_run_time, idle_time) == << total_run_time, idle_time >>

\* Faulty variant: the buffer is not given back.
CpuHeapAfterLeak(held) == held + 1

\* Lines 127 and 163: the buffer is taken and given back.
CpuHeapAfter(held) == (held + 1) - 1

\* Faulty variant: the output pointer is looked at only after the sample
\* has been taken and stored.
GetCpuUsageBodyLateCheck(isNull, mallocOk, snap) ==
    IF NotInitialized THEN Reject("ESP_ERR_INVALID_STATE")
    ELSE /\ UNCHANGED << sensor_on, clock_us >>
         /\ IF ~mallocOk THEN CpuNoMem
            ELSE LET idle_time == IdleTimeOf(snap.tasks, 1)
                     next == CpuNextSample(snap.total, idle_time)
                 IN /\ out' = IF isNull THEN NoOut
                               ELSE Wrote(CpuUsageValue(s_metrics.prev_total_run_time,
                                                        s_metrics.prev_idle_time,
                                                        snap.total, idle_time))
                    /\ s_metrics' = [s_metrics EXCEPT !.prev_total_run_time = next[1],
                                                      !.prev_idle_time = next[2]]
                    /\ heap_held' = CpuHeapAfter(heap_held)
                    /\ calls' = << P("uxTaskGetNumberOfTasks", "-"), P("malloc", "buffer"),
                                   Answer("uxTaskGetSystemState", "-", snap),
                                   P("free", "-") >>
                    /\ ret' = IF isNull THEN "ESP_ERR_INVALID_ARG" ELSE "ESP_OK"

GetCpuUsageBody(isNull, mallocOk, snap) ==
    IF NotInitialized THEN Reject("ESP_ERR_INVALID_STATE")
    ELSE IF isNull THEN Reject("ESP_ERR_INVALID_ARG")
    ELSE /\ UNCHANGED << sensor_on, clock_us >>
         /\ IF ~mallocOk THEN CpuNoMem
            ELSE LET idle_time == IdleTimeOf(snap.tasks, 1)
                     next == CpuNextSample(snap.total, idle_time)
                 IN /\ out' = Wrote(CpuUsageValue(s_metrics.prev_total_run_time,
                                                  s_metrics.prev_idle_time,
                                                  snap.total, idle_time))
                    /\ s_metrics' = [s_metrics EXCEPT !.prev_total_run_time = next[1],
                                                      !.prev_idle_time = next[2]]
                    /\ heap_held' = CpuHeapAfter(heap_held)
                    /\ calls' = << P("uxTaskGetNumberOfTasks", "-"), P("malloc", "buffer"),
                                   Answer("uxTaskGetSystemState", "-", snap),
                                   P("free", "-") >>
                    /\ ret' = "ESP_OK"

ESP32Metrics_GetCpuUsage(E) ==
    /\ Call("GetCpuUsage", NULL)
    /\ \E isNull \in BOOLEAN, mallocOk \in E.mallocs, snap \in E.snaps :
          null_out' = isNull /\ GetCpuUsageBody(isNull, mallocOk, snap)
    /\ cpu_calls' = CountCpu(ret' = "ESP_OK")
    /\ UNCHANGED << stale_sample, incs >>

(***************************************************************************)
(* ESP32Metrics_GetUptime (ESP32Metrics.c:168-181).                        *)
(***************************************************************************)
\* Faulty variant: the reading is taken for nanoseconds.
UptimeMsFromNanos(now) == now \div 1000000

\* esp_timer_get_time() / 1000
UptimeMs(now) == now \div 1000

GetUptimeBody(isNull, now) ==
    IF NotInitialized THEN Reject("ESP_ERR_INVALID_STATE")
    ELSE IF isNull THEN Reject("ESP_ERR_INVALID_ARG")
    ELSE /\ out' = Wrote(UptimeMs(now))
         /\ s_metrics' = [s_metrics EXCEPT !.last_uptime = UptimeMs(now)]
         /\ clock_us' = now
         /\ calls' = << P("esp_timer_get_time", "-") >>
         /\ ret' = "ESP_OK"
         /\ UNCHANGED << sensor_on, heap_held >>

ESP32Metrics_GetUptime(E) ==
    /\ Call("GetUptime", NULL)
    /\ \E isNull \in BOOLEAN, now \in E.clocks :
          now >= clock_us /\ null_out' = isNull /\ GetUptimeBody(isNull, now)
    /\ UNCHANGED << cpu_calls, stale_sample, incs >>

(***************************************************************************)
(* ESP32Metrics_GetTemperature (ESP32Metrics.c:241-263).                   *)
(***************************************************************************)
\* Faulty variant: 0.0f instead of NAN for a missing sensor.
TempDisabledZero ==
    /\ out' = Wrote(FZero) /\ ret' = "ESP_ERR_NOT_SUPPORTED"
    /\ calls' = << >>
    /\ UNCHANGED s_metrics

\* Lines 250-253.
TempDisabled ==
    /\ out' = Wrote(NaN) /\ ret' = "ESP_ERR_NOT_SUPPORTED"
    /\ calls' = << >>
    /\ UNCHANGED s_metrics

\* Faulty variant: a successful read is not cached.
TempCacheAfterStale(rd) == s_metrics.last_temperature

\* Lines 256-260: the cache after the read, and the value left in *temp.
TempCacheAfter(rd) == IF rd.rc = "ESP_OK" THEN rd.val ELSE s_metrics.last_temperature
TempOutput(rd) == IF rd.rc = "ESP_OK" THEN rd.val ELSE s_metrics.last_temperature

\* Faulty variant: every read failure reported as ESP_FAIL.
TempResultGeneric(rd) == IF rd.rc = "ESP_OK" THEN "ESP_OK" ELSE "ESP_FAIL"

\* Line 262.
TempResult(rd) == rd.rc

GetTemperatureBody(isNull, rd) ==
    IF NotInitialized THEN Reject("ESP_ERR_INVALID_STATE")
    ELSE IF isNull THEN Reject("ESP_ERR_INVALID_ARG")
    ELSE /\ UNCHANGED << sensor_on, clock_us, heap_held >>
         /\ IF ~s_metrics.temp_sensor_enabled THEN TempDisabled
            ELSE /\ calls' = << Answer("temp_sensor_read_celsius", rd.rc, rd.val) >>
                 /\ s_metrics' = [s_metrics EXCEPT !.last_temperature = TempCacheAfter(rd)]
                 /\ out' = Wrote(TempOutput(rd))
                 /\ ret' = TempResult(rd)

ESP32Metrics_GetTemperature(E) ==
    /\ Call("GetTemperature", NULL)
    /\ \E isNull \in BOOLEAN, rd \in E.reads : null_out' = isNull /\ GetTemperatureBody(isNull, rd)
    /\ UNCHANGED << cpu_calls, stale_sample, incs >>

(***************************************************************************)
(* The radio stack, as the wireless getters see it.                        *)
(***************************************************************************)
WifiModes == {"WIFI_MODE_NULL", "WIFI_MODE_STA", "WIFI_MODE_AP", "WIFI_MODE_APSTA"}
ModeRets == {"ESP_OK", "ESP_ERR_WIFI_NOT_INIT"}
ApRets == {"ESP_OK", "ESP_ERR_WIFI_NOT_CONNECT", "ESP_ERR_WIFI_CONN"}
PhyRets == {"ESP_OK", "ESP_FAIL"}
PhyModes == {"WIFI_PHY_MODE_LR", "WIFI_PHY_MODE_11B", "WIFI_PHY_MODE_11G",
             "WIFI_PHY_MODE_HT", "WIFI_PHY_MODE_VHT"}
SecondChans == {"WIFI_SECOND_CHAN_NONE", "WIFI_SECOND_CHAN_ABOVE"}
\* int8_t signal strengths: strong, the derating knee, inside the ramp, the
\* floor of the ramp, the weakest representable.
Rssis == {-50, -90, -100, -110, -128}
ApRecords == [rssi : Rssis, second : SecondChans]
\* int8_t signal strengths around the derating ramp: both ends of the type,
\* and every value from two below the ramp's floor to two above its knee.
SignalRssis == {-128, -127, 0, 127} \cup (-112..-88)

(***************************************************************************)
(* ESP32Metrics_GetWifiSignal (ESP32Metrics.c:183-202).                    *)
(***************************************************************************)
\* Faulty variant: the record's field is copied out whatever the query said.
WifiSignalOutputRaw(apRet, ap) == ap.rssi

\* Lines 195-199.
WifiSignalOutput(apRet, ap) == IF apRet = "ESP_OK" THEN ap.rssi ELSE 0

GetWifiSignalBody(isNull, apRet, ap) ==
    IF NotInitialized THEN Reject("ESP_ERR_INVALID_STATE")
    ELSE IF isNull THEN Reject("ESP_ERR_INVALID_ARG")
    ELSE /\ calls' = << Answer("esp_wifi_sta_get_ap_info", apRet, ap) >>
         /\ out' = Wrote(WifiSignalOutput(apRet, ap))
         /\ ret' = apRet
         /\ UNCHANGED << s_metrics, sensor_on, clock_us, heap_held >>

ESP32Metrics_GetWifiSignal(E) ==
    /\ Call("GetWifiSignal", NULL)
    /\ \E isNull \in BOOLEAN, apRet \in E.apRets, ap \in E.aps :
          null_out' = isNull /\ GetWifiSignalBody(isNull, apRet, ap)
    /\ UNCHANGED << cpu_calls, stale_sample, incs >>

(***************************************************************************)
(* ESP32Metrics_GetWifiStatus (ESP32Metrics.c:204-239).                    *)
(***************************************************************************)
\* Faulty variant: every failure of the record query read as "not connected".
WifiStatusOfRecordTwoWay(apRet) ==
    IF apRet = "ESP_OK" THEN "ESP32_WIFI_CONNECTED" ELSE "ESP32_WIFI_DISCONNECTED"

\* Lines 230-236.
WifiStatusOfRecord(apRet) ==
    IF apRet = "ESP_OK" THEN "ESP32_WIFI_CONNECTED"
    ELSE IF apRet = "ESP_ERR_WIFI_NOT_CONNECT" THEN "ESP32_WIFI_DISCONNECTED"
    ELSE "ESP32_WIFI_NOT_INITIALIZED"

GetWifiStatusBody(isNull, modeRet, mode, apRet) ==
    IF NotInitialized THEN Reject("ESP_ERR_INVALID_STATE")
    ELSE IF isNull THEN Reject("ESP_ERR_INVALID_ARG")
    ELSE /\ UNCHANGED << s_metrics, sensor_on, clock_us, heap_held >>
         /\ IF modeRet # "ESP_OK"
            THEN /\ out' = Wrote("ESP32_WIFI_NOT_INITIALIZED")
                 /\ ret' = modeRet
                 /\ calls' = << Answer("esp_wifi_get_mode", modeRet, mode) >>
            ELSE IF mode = "WIFI_MODE_NULL" \/ mode = "WIFI_MODE_AP"
            THEN /\ out' = Wrote("ESP32_WIFI_DISCONNECTED")
                 /\ ret' = "ESP_OK"
                 /\ calls' = << Answer("esp_wifi_get_mode", modeRet, mode) >>
            ELSE /\ out' = Wrote(WifiStatusOfRecord(apRet))
                 /\ ret' = "ESP_OK"
                 /\ calls' = << Answer("esp_wifi_get_mode", modeRet, mode),
                                P("esp_wifi_sta_get_ap_info", apRet) >>

ESP32Metrics_GetWifiStatus(E) ==
    /\ Call("GetWifiStatus", NULL)
    /\ \E isNull \in BOOLEAN, modeRet \in E.modeRets, mode \in E.modes, apRet \in E.apRets :
          null_out' = isNull /\ GetWifiStatusBody(isNull, modeRet, mode, apRet)
    /\ UNCHANGED << cpu_calls, stale_sample, incs >>

(***************************************************************************)
(* ESP32Metrics_GetWifiDataRate (ESP32Metrics.c:291-346).                  *)
(***************************************************************************)
FHalf == FDiv(FloatOfNat(1), FloatOfNat(2))

\* Faulty variant: the channel width is not looked at.
NominalRateNarrow(phy_mode, secondary_channel) ==
    IF phy_mode = "WIFI_PHY_MODE_LR" THEN FHalf
    ELSE IF phy_mode = "WIFI_PHY_MODE_HT" THEN FloatOfNat(72)
    ELSE IF phy_mode = "WIFI_PHY_MODE_VHT" THEN FloatOfNat(96)
    ELSE FloatOfNat(11)

\* The switch of lines 317-338.
NominalRate(phy_mode, secondary_channel) ==
    IF phy_mode = "WIFI_PHY_MODE_LR" THEN FHalf
    ELSE IF phy_mode = "WIFI_PHY_MODE_HT"
    THEN (IF secondary_channel # "WIFI_SECOND_CHAN_NONE"
          THEN FloatOfNat(144) ELSE FloatOfNat(72))
    ELSE IF phy_mode = "WIFI_PHY_MODE_VHT"
    THEN (IF secondary_channel # "WIFI_SECOND_CHAN_NONE"
          THEN FloatOfNat(200) ELSE FloatOfNat(96))
    ELSE FloatOfNat(11)

\* Line 342: 1.0f - (float)fmax(-90 - rssi, 0) / 40.0f
SignalFactor(rssi) ==
    LET weak == IF -90 - rssi > 0 THEN -90 - rssi ELSE 0
    IN FSub(FloatOfNat(1), FDiv(FloatOfNat(weak), FloatOfNat(40)))

\* Faulty variant: the factor is not floored at 0.5.
DeratedRateNoFloor(nominal, rssi) == FMul(SignalFactor(rssi), nominal)

\* Line 343: *rate *= fmax(signal_factor, 0.5f). The product is formed in
\* double, where it is exact, and rounded once on the store to *rate.
DeratedRate(nominal, rssi) ==
    LET sf == SignalFactor(rssi)
        factor == IF FLe(sf, FHalf) THEN FHalf ELSE sf
    IN FMul(factor, nominal)

\* *rate at line 345 for each PHY mode, secondary channel and RSSI.
WifiDataRateOf ==
    [ phy \in PhyModes, second \in SecondChans, rssi \in Rssis \cup SignalRssis |->
        DeratedRate(NominalRate(phy, second), rssi) ]

\* Lines 314-345, reached with the record `ap`. The status phyRet of the
\* PHY-mode query is dropped (line 314): after a failed query phy_mode is
\* whatever the uninitialized local held, which `phy` then stands for.
WifiDataRateEstimate(ap, phyRet, phy) ==
    /\ out' = Wrote(WifiDataRateOf[phy, ap.second, ap.rssi])
    /\ ret' = "ESP_OK"
    /\ calls' = << Answer("esp_wifi_sta_get_ap_info", "ESP_OK", ap),
                   Answer("esp_wifi_sta_get_negotiated_phymode", phyRet, phy) >>

GetWifiDataRateBody(E, isNull, apRet, ap) ==
    IF NotInitialized THEN Reject("ESP_ERR_INVALID_STATE")
    ELSE IF isNull THEN Reject("ESP_ERR_INVALID_ARG")
    ELSE /\ UNCHANGED << s_metrics, sensor_on, clock_us, heap_held >>
         /\ IF apRet # "ESP_OK"
            THEN /\ out' = Wrote(FZero)
                 /\ ret' = apRet
                 /\ calls' = << P("esp_wifi_sta_get_ap_info", apRet) >>
            ELSE \E phyRet \in E.phyRets, phy \in E.phys :
                    WifiDataRateEstimate(ap, phyRet, phy)

ESP32Metrics_GetWifiDataRate(E) ==
    /\ Call("GetWifiDataRate", NULL)
    /\ \E isNull \in BOOLEAN, apRet \in E.apRets, ap \in E.aps :
          null_out' = isNull /\ GetWifiDataRateBody(E, isNull, apRet, ap)
    /\ UNCHANGED << cpu_calls, stale_sample, incs >>

(***************************************************************************)
(* The cached values: ESP32Metrics_GetBrownoutCount (265-276),             *)
(* ESP32Metrics_GetRebootReason (278-289), ESP32Metrics_GetErrorCount      *)
(* (361-372), and ESP32Metrics_GetLogLevel (348-359).                      *)
(***************************************************************************)
GetBrownoutCountBody(isNull) ==
    IF NotInitialized THEN Reject("ESP_ERR_INVALID_STATE")
    ELSE IF isNull THEN Reject("ESP_ERR_INVALID_ARG")
    ELSE /\ out' = Wrote(s_metrics.brownout_count)
         /\ ret' = "ESP_OK" /\ calls' = << >>
         /\ UNCHANGED << s_metrics, sensor_on, clock_us, heap_held >>

ESP32Metrics_GetBrownoutCount ==
    /\ Call("GetBrownoutCount", NULL)
    /\ \E isNull \in BOOLEAN : null_out' = isNull /\ GetBrownoutCountBody(isNull)
    /\ UNCHANGED << cpu_calls, stale_sample, incs >>

\* Faulty variant: the reset cause is read and classified again on each call.
GetRebootReasonBodyRequery(isNull) ==
    IF NotInitialized THEN Reject("ESP_ERR_INVALID_STATE")
    ELSE IF isNull THEN Reject("ESP_ERR_INVALID_ARG")
    ELSE /\ out' = Wrote(RebootReasonOf(s_metrics.reboot_reason.code))
         /\ ret' = "ESP_OK"
         /\ calls' = << Answer("esp_reset_reason", "-", s_metrics.reboot_reason.code) >>
         /\ UNCHANGED << s_metrics, sensor_on, clock_us, heap_held >>

GetRebootReasonBody(isNull) ==
    IF NotInitialized THEN Reject("ESP_ERR_INVALID_STATE")
    ELSE IF isNull THEN Reject("ESP_ERR_INVALID_ARG")
    ELSE /\ out' = Wrote(s_metrics.reboot_reason)
         /\ ret' = "ESP_OK" /\ calls' = << >>
         /\ UNCHANGED << s_metrics, sensor_on, clock_us, heap_held >>

ESP32Metrics_GetRebootReason ==
    /\ Call("GetRebootReason", NULL)
    /\ \E isNull \in BOOLEAN : null_out' = isNull /\ GetRebootReasonBody(isNull)
    /\ UNCHANGED << cpu_calls, stale_sample, incs >>

LogLevels == {"ESP_LOG_INFO", "ESP_LOG_DEBUG"}

GetLogLevelBody(isNull, level) ==
    IF NotInitialized THEN Reject("ESP_ERR_INVALID_STATE")
    ELSE IF isNull THEN Reject("ESP_ERR_INVALID_ARG")
    ELSE /\ out' = Wrote(level)
         /\ ret' = "ESP_OK" /\ calls' = << P("esp_log_level_get", "-") >>
         /\ UNCHANGED << s_metrics, sensor_on, clock_us, heap_held >>

ESP32Metrics_GetLogLevel(E) ==
    /\ Call("GetLogLevel", NULL)
    /\ \E isNull \in BOOLEAN, level \in E.levels : null_out' = isNull /\ GetLogLevelBody(isNull, level)
    /\ UNCHANGED << cpu_calls, stale_sample, incs >>

\* *count = s_metrics.error_count;
ErrorCountOutput == s_metrics.error_count

\* Faulty variant: reading the counter clears it.
GetErrorCountBodyClearing(isNull) ==
    IF NotInitialized THEN Reject("ESP_ERR_INVALID_STATE")
    ELSE IF isNull THEN Reject("ESP_ERR_INVALID_ARG")
    ELSE /\ out' = Wrote(ErrorCountOutput)
         /\ ret' = "ESP_OK" /\ calls' = << >>
         /\ s_metrics' = [s_metrics EXCEPT !.error_count = U32(0)]
         /\ UNCHANGED << sensor_on, clock_us, heap_held >>

GetErrorCountBody(isNull) ==
    IF NotInitialized THEN Reject("ESP_ERR_INVALID_STATE")
    ELSE IF isNull THEN Reject("ESP_ERR_INVALID_ARG")
    ELSE /\ out' = Wrote(ErrorCountOutput)
         /\ ret' = "ESP_OK" /\ calls' = << >>
         /\ UNCHANGED << s_metrics, sensor_on, clock_us, heap_held >>

ESP32Metrics_GetErrorCount ==
    /\ Call("GetErrorCount", NULL)
    /\ \E isNull \in BOOLEAN : null_out' = isNull /\ GetErrorCountBody(isNull)
    /\ UNCHANGED << cpu_calls, stale_sample, incs >>

(***************************************************************************)
(* ESP32Metrics_IncrementErrorCount (ESP32Metrics.c:374-381). One step is  *)
(* the operation called `times` times in a row with no other call in       *)
(* between: it ends in the state the last of those calls leaves, `pre`     *)
(* being the record that last call found. The model calls it once at a     *)
(* time until the counter stands at the environment's stopping value, and  *)
(* several times in a row only on a counter that stands at 0.              *)
(***************************************************************************)
\* Faulty variant: the increment is lost.
ErrorCountNotIncremented == s_metrics.error_count

\* Faulty variant: the counter sticks at UINT32_MAX.
ErrorCountSaturating ==
    IF s_metrics.error_count = Max32 THEN Max32 ELSE Inc32(s_metrics.error_count)

\* s_metrics.error_count++;
ErrorCountAfterIncrement == Inc32(s_metrics.error_count)

\* error_count when `times` >= 1 calls in a row have returned.
ErrorCountAfterCalls(times) == Add32(ErrorCountAfterIncrement, Dec32(times))

ESP32Metrics_IncrementErrorCount(E) ==
    /\ op' = "IncrementErrorCount" /\ mtype' = NULL /\ null_out' = FALSE
    /\ IF NotInitialized
       THEN Reject("ESP_ERR_INVALID_STATE") /\ pre' = s_metrics /\ UNCHANGED incs
       ELSE \E times \in E.times :
            /\ IF times = U32(1) THEN s_metrics.error_count # U32(E.maxErrors)
                                 ELSE s_metrics.error_count = U32(0)
            /\ s_metrics' = [s_metrics EXCEPT !.error_count = ErrorCountAfterCalls(times)]
            /\ pre' = IF times = U32(1) THEN s_metrics
                      ELSE [s_metrics EXCEPT
                              !.error_count = Dec32(ErrorCountAfterCalls(times))]
            /\ ret' = "ESP_OK" /\ out' = NoOut /\ calls' = << >>
            /\ incs' = Add32(incs, times)
            /\ UNCHANGED << sensor_on, clock_us, heap_held >>
    /\ UNCHANGED << cpu_calls, stale_sample >>

(***************************************************************************)
(* ESP32Metrics_GetMetric (ESP32Metrics.c:383-430).                        *)
(***************************************************************************)
MetricTypes ==
    {"ESP32_METRIC_CPU_USAGE", "ESP32_METRIC_UPTIME", "ESP32_METRIC_WIFI_SIGNAL",
     "ESP32_METRIC_WIFI_STATUS", "ESP32_METRIC_TEMPERATURE",
     "ESP32_METRIC_BROWNOUT_COUNT", "ESP32_METRIC_REBOOT_REASON",
     "ESP32_METRIC_WIFI_DATA_RATE", "ESP32_METRIC_LOG_LEVEL",
     "ESP32_METRIC_ERROR_COUNT"}
\* A type value that is none of the enumerators (the test passes 99).
BadMetricTypes == {"99"}

\* Faulty variant: an unrecognized type answered like an empty metric.
DispatchDefaultZero ==
    /\ ret' = "ESP_OK" /\ out' = Wrote(0) /\ calls' = << >>
    /\ UNCHANGED << s_metrics, sensor_on, clock_us, heap_held >>

\* default: ret = ESP_ERR_INVALID_ARG; (lines 425-426)
DispatchDefault == Reject("ESP_ERR_INVALID_ARG")

\* Faulty variant: the two float metrics' cases are crossed.
DispatchFloatsCrossed(E, type) ==
    CASE type = "ESP32_METRIC_TEMPERATURE" ->
           \E mallocOk \in E.mallocs, snap \in E.snaps :
              GetCpuUsageBody(FALSE, mallocOk, snap)
      [] type = "ESP32_METRIC_UPTIME" ->
           \E now \in E.clocks : now >= clock_us /\ GetUptimeBody(FALSE, now)
      [] type = "ESP32_METRIC_WIFI_SIGNAL" ->
           \E apRet \in E.apRets, ap \in E.aps : GetWifiSignalBody(FALSE, apRet, ap)
      [] type = "ESP32_METRIC_WIFI_STATUS" ->
           \E modeRet \in E.modeRets, mode \in E.modes, apRet \in E.apRets :
              GetWifiStatusBody(FALSE, modeRet, mode, apRet)
      [] type = "ESP32_METRIC_CPU_USAGE" ->
           \E rd \in E.reads : GetTemperatureBody(FALSE, rd)
      [] type = "ESP32_METRIC_BROWNOUT_COUNT" -> GetBrownoutCountBody(FALSE)
      [] type = "ESP32_METRIC_REBOOT_REASON" -> GetRebootReasonBody(FALSE)
      [] type = "ESP32_METRIC_WIFI_DATA_RATE" ->
           \E apRet \in E.apRets, ap \in E.aps :
              GetWifiDataRateBody(E, FALSE, apRet, ap)
      [] type = "ESP32_METRIC_LOG_LEVEL" ->
           \E level \in E.levels : GetLogLevelBody(FALSE, level)
      [] type = "ESP32_METRIC_ERROR_COUNT" -> GetErrorCountBody(FALSE)
      [] OTHER -> DispatchDefault

\* The switch of lines 394-427, entered with a non-null value.
Dispatch(E, type) ==
    CASE type = "ESP32_METRIC_CPU_USAGE" ->
           \E mallocOk \in E.mallocs, snap \in E.snaps :
              GetCpuUsageBody(FALSE, mallocOk, snap)
      [] type = "ESP32_METRIC_UPTIME" ->
           \E now \in E.clocks : now >= clock_us /\ GetUptimeBody(FALSE, now)
      [] type = "ESP32_METRIC_WIFI_SIGNAL" ->
           \E apRet \in E.apRets, ap \in E.aps : GetWifiSignalBody(FALSE, apRet, ap)
      [] type = "ESP32_METRIC_WIFI_STATUS" ->
           \E modeRet \in E.modeRets, mode \in E.modes, apRet \in E.apRets :
              GetWifiStatusBody(FALSE, modeRet, mode, apRet)
      [] type = "ESP32_METRIC_TEMPERATURE" ->
           \E rd \in E.reads : GetTemperatureBody(FALSE, rd)
      [] type = "ESP32_METRIC_BROWNOUT_COUNT" -> GetBrownoutCountBody(FALSE)
      [] type = "ESP32_METRIC_REBOOT_REASON" -> GetRebootReasonBody(FALSE)
      [] type = "ESP32_METRIC_WIFI_DATA_RATE" ->
           \E apRet \in E.apRets, ap \in E.aps :
              GetWifiDataRateBody(E, FALSE, apRet, ap)
      [] type = "ESP32_METRIC_LOG_LEVEL" ->
           \E level \in E.levels : GetLogLevelBody(FALSE, level)
      [] type = "ESP32_METRIC_ERROR_COUNT" -> GetErrorCountBody(FALSE)
      [] OTHER -> DispatchDefault

ESP32Metrics_GetMetric(E) ==
    \E type \in MetricTypes \cup BadMetricTypes, isNull \in BOOLEAN :
       /\ Call("GetMetric", type) /\ null_out' = isNull
       /\ IF NotInitialized THEN Reject("ESP_ERR_INVALID_STATE")
          ELSE IF isNull THEN Reject("ESP_ERR_INVALID_ARG")
          ELSE Dispatch(E, type)
       /\ cpu_calls' = CountCpu(type = "ESP32_METRIC_CPU_USAGE" /\ ret' = "ESP_OK")
       /\ UNCHANGED << stale_sample, incs >>

(***************************************************************************)
(* Environments. The facade is called one operation at a time, any         *)
(* operation at any time; an environment fixes what the capability         *)
(* providers may answer. Each specification lets one group of providers    *)
(* range over all the behaviours listed above and holds the others to one  *)
(* behaviour, so that the state spaces add up instead of multiplying.      *)
(***************************************************************************)
\* Every provider held to one behaviour: no sensor, power-on reset, no
\* wireless link, one scheduler snapshot, a clock that stands still.
EnvQuiet ==
    [ clocks    |-> {0},
      cfgs      |-> {"ESP_FAIL"},
      starts    |-> {"ESP_OK"},
      reads     |-> {[rc |-> "ESP_FAIL", wrote |-> FALSE, val |-> FZero]},
      resets    |-> {1},
      snaps     |-> {Snap(4, << Task("main", 3), Task("IDLE", 1) >>)},
      mallocs   |-> {TRUE},
      modeRets  |-> {"ESP_OK"},
      modes     |-> {"WIFI_MODE_STA"},
      apRets    |-> {"ESP_ERR_WIFI_NOT_CONNECT"},
      aps       |-> {[rssi |-> -50, second |-> "WIFI_SECOND_CHAN_NONE"]},
      phyRets   |-> {"ESP_OK"},
      phys      |-> {"WIFI_PHY_MODE_11B"},
      levels    |-> {"ESP_LOG_INFO"},
      times     |-> {U32(1)},
      maxErrors |-> 1 ]

\* Lifecycle and counters: every outcome of the sensor's configure, start
\* and seed read, brownout and power-on resets, errors up to MaxErrorCount.
EnvLife ==
    [ EnvQuiet EXCEPT !.clocks = {0, 1000}, !.cfgs = SensorRets, !.starts = SensorRets,
                      !.reads = {[rc |-> "ESP_OK", wrote |-> TRUE, val |-> FloatOfNat(25)],
                                 [rc |-> "ESP_FAIL", wrote |-> FALSE, val |-> FZero]},
                      !.resets = {1, ESP_RST_BROWNOUT},
                      !.maxErrors = MaxErrorCount ]

\* Something for every getter to report: the lifecycle's inputs, two
\* scheduler snapshots, a station that is or is not connected, two radio
\* modes and two PHY modes.
EnvDispatch ==
    [ EnvLife EXCEPT !.snaps = {Snap(4, << Task("main", 3), Task("IDLE", 1) >>),
                                Snap(8, << Task("IDLE", 3), Task("main", 5) >>)},
                     !.mallocs = BOOLEAN,
                     !.modes = {"WIFI_MODE_NULL", "WIFI_MODE_STA"},
                     !.apRets = {"ESP_OK", "ESP_ERR_WIFI_NOT_CONNECT"},
                     !.phys = {"WIFI_PHY_MODE_11B", "WIFI_PHY_MODE_HT"},
                     !.maxErrors = 1 ]

\* Scheduler statistics and the heap.
EnvCpu == [ EnvQuiet EXCEPT !.snaps = Snapshots, !.mallocs = BOOLEAN ]

\* The monotonic clock.
EnvClock == [ EnvQuiet EXCEPT !.clocks = ClockReadings ]

\* The temperature sensor.
EnvTemp ==
    [ EnvQuiet EXCEPT !.cfgs = SensorRets, !.starts = SensorRets,
                      !.reads = SensorReads ]

\* The radio's mode and link: every mode, every outcome of the mode and
\* record queries, every record.
EnvWifi ==
    [ EnvQuiet EXCEPT !.modeRets = ModeRets, !.modes = WifiModes, !.apRets = ApRets,
                      !.aps = ApRecords ]

\* The negotiated link: every record, every PHY mode, every outcome of the
\* record and PHY-mode queries.
EnvRate ==
    [ EnvQuiet EXCEPT !.apRets = ApRets, !.aps = ApRecords,
                      !.phyRets = PhyRets, !.phys = PhyModes ]

\* A connected station at every signal strength around the derating ramp.
EnvSignal ==
    [ EnvQuiet EXCEPT !.apRets = {"ESP_OK"},
                      !.aps = [rssi : SignalRssis, second : SecondChans],
                      !.phys = PhyModes ]

\* The reset-cause register.
EnvReset == [ EnvQuiet EXCEPT !.resets = ResetCodes ]

\* The error counter near the end of its range: 2^32 - 2 calls in a row.
EnvWrap == [ EnvQuiet EXCEPT !.times = {U32(1), Dec32(Max32)} ]

\* A call made from start to end with no other task running in between.
Serial(call) == call /\ UNCHANGED << cpu_task, excl, inc_task >>

Next(E) ==
    \/ Serial(ESP32Metrics_Init(E))
    \/ Serial(ESP32Metrics_Deinit)
    \/ Serial(ESP32Metrics_GetCpuUsage(E))
    \/ Serial(ESP32Metrics_GetUptime(E))
    \/ Serial(ESP32Metrics_GetWifiSignal(E))
    \/ Serial(ESP32Metrics_GetWifiStatus(E))
    \/ Serial(ESP32Metrics_GetWifiDataRate(E))
    \/ Serial(ESP32Metrics_GetTemperature(E))
    \/ Serial(ESP32Metrics_GetBrownoutCount)
    \/ Serial(ESP32Metrics_GetRebootReason)
    \/ Serial(ESP32Metrics_GetLogLevel(E))
    \/ Serial(ESP32Metrics_GetErrorCount)
    \/ Serial(ESP32Metrics_IncrementErrorCount(E))
    \/ Serial(ESP32Metrics_GetMetric(E))

Spec == Init /\ [][Next(EnvLife)]_vars
SpecCpu == Init /\ [][Next(EnvCpu)]_vars
SpecTemp == Init /\ [][Next(EnvTemp)]_vars
SpecClock == Init /\ [][Next(EnvClock)]_vars
SpecWifi == Init /\ [][Next(EnvWifi)]_vars
SpecRate == Init /\ [][Next(EnvRate)]_vars
SpecReset == Init /\ [][Next(EnvReset)]_vars
SpecWrap == Init /\ [][Next(EnvWrap)]_vars
SpecSignal == Init /\ [][Next(EnvSignal)]_vars
SpecDispatch == Init /\ [][Next(EnvDispatch)]_vars

(***************************************************************************)
(* ESP32Metrics_GetCpuUsage called from two tasks at once (lines 132-160), *)
(* followed statement by statement: the snapshot and the idle-task search  *)
(* work on locals; the previous sample is read field by field at lines     *)
(* 145-147 and written field by field at lines 159-160. A caller either    *)
(* takes the callers' mutex around its call or does not. Init runs on the  *)
(* controlling task while no call is in progress.                          *)
(***************************************************************************)
\* What the statement-by-statement steps leave alone.
CallRecord == << sensor_on, clock_us, heap_held, op, mtype, ret, out, calls, pre,
                cpu_calls, stale_sample, incs, null_out, inc_task >>

\* Lines 113-142: the checks pass, the snapshot is taken, the idle task found.
CpuBegin(E, t, guarded) ==
    /\ cpu_task[t].pc = "idle" /\ ~NotInitialized
    /\ guarded => excl.holder = NULL
    /\ \E snap \in E.snaps :
          cpu_task' = [cpu_task EXCEPT ![t] =
              [ IdleTask EXCEPT !.pc = "sampled", !.guarded = guarded,
                                !.entry = << s_metrics.prev_total_run_time,
                                             s_metrics.prev_idle_time >>,
                                !.total = snap.total,
                                !.idle = IdleTimeOf(snap.tasks, 1) ]]
    /\ excl' = [ holder |-> IF guarded THEN t ELSE excl.holder,
                 bypassed |-> excl.bypassed \/ ~guarded ]
    /\ UNCHANGED s_metrics /\ UNCHANGED CallRecord

\* Lines 145-146: prev_total_run_time is read; 0 means a first measurement.
CpuReadTotal(t) ==
    /\ cpu_task[t].pc = "sampled"
    /\ cpu_task' = [cpu_task EXCEPT
          ![t].bt = s_metrics.prev_total_run_time,
          ![t].pc = IF s_metrics.prev_total_run_time > 0 THEN "read_total"
                                                         ELSE "computed"]
    /\ UNCHANGED << s_metrics, excl >> /\ UNCHANGED CallRecord

\* Lines 147-153: prev_idle_time is read and the value for *usage computed.
CpuReadIdle(t) ==
    /\ cpu_task[t].pc = "read_total"
    /\ cpu_task' = [cpu_task EXCEPT
          ![t].bi = s_metrics.prev_idle_time,
          ![t].usage = CpuUsageValue(cpu_task[t].bt, s_metrics.prev_idle_time,
                                     cpu_task[t].total, cpu_task[t].idle),
          ![t].pc = "computed"]
    /\ UNCHANGED << s_metrics, excl >> /\ UNCHANGED CallRecord

\* Line 159.
CpuStoreTotal(t) ==
    /\ cpu_task[t].pc = "computed"
    /\ s_metrics' = [s_metrics EXCEPT !.prev_total_run_time =
                        CpuNextSample(cpu_task[t].total, cpu_task[t].idle)[1]]
    /\ cpu_task' = [cpu_task EXCEPT ![t].pc = "stored_total"]
    /\ UNCHANGED excl /\ UNCHANGED CallRecord

\* Lines 160-165: the second field is stored and the call returns.
CpuStoreIdle(t) ==
    /\ cpu_task[t].pc = "stored_total"
    /\ s_metrics' = [s_metrics EXCEPT !.prev_idle_time =
                        CpuNextSample(cpu_task[t].total, cpu_task[t].idle)[2]]
    /\ cpu_task' = [cpu_task EXCEPT ![t] = IdleTask]
    /\ excl' = [excl EXCEPT !.holder = IF cpu_task[t].guarded THEN NULL ELSE @]
    /\ UNCHANGED CallRecord

\* Init and Deinit on the controlling task, no GetCpuUsage being in progress.
TasksInit(E) ==
    /\ \A t \in Callers : cpu_task[t].pc = "idle"
    /\ ESP32Metrics_Init(E)
    /\ excl' = [excl EXCEPT !.bypassed = IF NotInitialized THEN FALSE ELSE @]
    /\ UNCHANGED << cpu_task, inc_task >>

TasksDeinit ==
    /\ \A t \in Callers : cpu_task[t].pc = "idle"
    /\ Serial(ESP32Metrics_Deinit)

\* Two scheduler snapshots whose totals and idle counters differ.
EnvTasks ==
    [ EnvQuiet EXCEPT !.snaps =
        { Snap(4, << Task("main", 3), Task("IDLE", 1) >>),
          Snap(8, << Task("IDLE", 3), Task("main", 5) >>) } ]

NextTasks(E) ==
    \/ TasksInit(E)
    \/ TasksDeinit
    \/ \E t \in Callers, guarded \in BOOLEAN : CpuBegin(E, t, guarded)
    \/ \E t \in Callers : CpuReadTotal(t)
    \/ \E t \in Callers : CpuReadIdle(t)
    \/ \E t \in Callers : CpuStoreTotal(t)
    \/ \E t \in Callers : CpuStoreIdle(t)

SpecTasks == Init /\ [][NextTasks(EnvTasks)]_vars

(***************************************************************************)
(* ESP32Metrics_IncrementErrorCount called from two tasks at once (lines   *)
(* 374-381). `s_metrics.error_count++` on a plain uint32_t in memory is a  *)
(* load, an add and a store, with no lock and no atomic around them; the   *)
(* calls are followed through these steps. Init and Deinit run on the      *)
(* controlling task while no call is in progress.                          *)
(***************************************************************************)
\* What the steps of IncrementErrorCount leave alone.
IncrementFrame == << sensor_on, clock_us, heap_held, cpu_calls, stale_sample,
                    cpu_task, excl >>

\* The calls that have loaded error_count and not yet stored it.
IncrementsInProgress == Cardinality({t \in Callers : inc_task[t].pc = "loaded"})

\* error_count as stored by a task that loaded `loaded`.
ErrorCountStored(loaded) == Inc32(loaded)

\* Lines 375-379, first half: the check, then error_count is loaded.
IncLoad(E, t) ==
    /\ inc_task[t].pc = "idle"
    /\ Add32(incs, U32(IncrementsInProgress)) # U32(E.maxErrors)
    /\ IF NotInitialized
       THEN /\ op' = "IncrementErrorCount" /\ mtype' = NULL /\ null_out' = FALSE
            /\ pre' = s_metrics
            /\ Reject("ESP_ERR_INVALID_STATE")
            /\ UNCHANGED << inc_task, incs >>
       ELSE /\ inc_task' = [inc_task EXCEPT ![t] =
                              [pc |-> "loaded", reg |-> s_metrics.error_count]]
            /\ UNCHANGED << s_metrics, sensor_on, clock_us, heap_held, op, mtype,
                            ret, out, calls, pre, incs, null_out >>
    /\ UNCHANGED << cpu_calls, stale_sample, cpu_task, excl >>

\* Lines 379-380, second half: the incremented value is stored, ESP_OK returned.
IncStore(t) ==
    /\ inc_task[t].pc = "loaded"
    /\ s_metrics' = [s_metrics EXCEPT !.error_count = ErrorCountStored(inc_task[t].reg)]
    /\ inc_task' = [inc_task EXCEPT ![t] = IdleIncrement]
    /\ op' = "IncrementErrorCount" /\ mtype' = NULL /\ null_out' = FALSE
    /\ pre' = [s_metrics EXCEPT !.error_count = inc_task[t].reg]
    /\ ret' = "ESP_OK" /\ out' = NoOut /\ calls' = << >>
    /\ incs' = Inc32(incs)
    /\ UNCHANGED IncrementFrame

\* Init and Deinit on the controlling task, no increment being in progress.
IncrementInit(E) ==
    /\ \A t \in Callers : inc_task[t].pc = "idle"
    /\ Serial(ESP32Metrics_Init(E))

IncrementDeinit ==
    /\ \A t \in Callers : inc_task[t].pc = "idle"
    /\ Serial(ESP32Metrics_Deinit)

\* Sessions in which up to MaxErrorCount increments are made.
EnvIncrement == [ EnvQuiet EXCEPT !.maxErrors = MaxErrorCount, !.resets = {1, ESP_RST_BROWNOUT} ]

NextIncrement(E) ==
    \/ IncrementInit(E)
    \/ IncrementDeinit
    \/ \E t \in Callers : IncLoad(E, t)
    \/ \E t \in Callers : IncStore(t)

SpecIncrement == Init /\ [][NextIncrement(EnvIncrement)]_vars

(***************************************************************************)
(* Properties.                                                             *)
(***************************************************************************)
GetterOps ==
    {"GetCpuUsage", "GetUptime", "GetWifiSignal", "GetWifiStatus",
     "GetWifiDataRate", "GetTemperature", "GetBrownoutCount", "GetErrorCount",
     "IncrementErrorCount", "GetRebootReason", "GetLogLevel", "GetMetric"}

\* The last call ran GetCpuUsage / GetTemperature, directly or through GetMetric.
IsCpuCall == op = "GetCpuUsage" \/ (op = "GetMetric" /\ mtype = "ESP32_METRIC_CPU_USAGE")
IsTempCall == op = "GetTemperature" \/ (op = "GetMetric" /\ mtype = "ESP32_METRIC_TEMPERATURE")

\* An initializing Init that came after an earlier session was torn down.
ReInit == op = "Init" /\ ~pre.is_initialized /\ pre.reboot_reason.reason # NULL

\* C1: while initialized == false, every getter (and IncrementErrorCount and
\* GetMetric) returns InvalidState, writes no output, calls no provider and
\* leaves MetricsState as it was.
C1_UninitializedRejected ==
    (op \in GetterOps /\ ~pre.is_initialized) =>
        /\ ret = "ESP_ERR_INVALID_STATE"
        /\ ~out.w
        /\ calls = << >>
        /\ s_metrics = pre

\* C1 witness: IncrementErrorCount refused after a Deinit that left counts behind.
C1_Witness ==
    /\ op = "IncrementErrorCount" /\ ~pre.is_initialized
    /\ pre.error_count = U32(2) /\ ret = "ESP_ERR_INVALID_STATE"

\* C2: Init while already initialized returns success, changes no field of
\* MetricsState and calls no provider.
C2_InitIdempotent ==
    (op = "Init" /\ pre.is_initialized) =>
        /\ ret = "ESP_OK"
        /\ s_metrics = pre
        /\ calls = << >>

\* C2 witness: a second Init over non-zero counters, a stored CPU sample and
\* a cached temperature.
C2_Witness ==
    /\ op = "Init" /\ pre.is_initialized /\ ret = "ESP_OK"
    /\ pre.error_count # U32(0) /\ pre.brownout_count = 1
    /\ pre.prev_total_run_time > 0
    /\ pre.last_temperature = FloatOfNat(25)

\* C3 as claimed: after Deinit then Init both counters are 0, whatever the
\* reset-cause reader reports.
C3_BothZeroAfterReInit ==
    ReInit => s_metrics.error_count = U32(0) /\ s_metrics.brownout_count = 0

\* C3 as amended: after Deinit then Init, errorCount is 0 and brownoutCount is
\* 1 if the reset cause read by that Init is brownout and 0 otherwise,
\* whatever the counters were in the previous session.
C3_CountersAfterReInit ==
    ReInit =>
        /\ s_metrics.error_count = U32(0)
        /\ s_metrics.brownout_count =
              (IF s_metrics.reboot_reason.code = ESP_RST_BROWNOUT THEN 1 ELSE 0)

\* C3 witness: the previous session ended with errors and a brownout count,
\* the new one starts from a power-on reset cause.
C3_Witness ==
    /\ ReInit /\ pre.error_count # U32(0) /\ pre.brownout_count = 1
    /\ s_metrics.error_count = U32(0) /\ s_metrics.brownout_count = 0

\* C4: in a session, after N completed IncrementErrorCount calls error_count
\* is N and GetErrorCount returns (success, N); each call adds exactly 1 and
\* no other call but an initializing Init changes the counter.
C4_ErrorCountCounts ==
    /\ s_metrics.is_initialized => s_metrics.error_count = incs
    /\ (op = "GetErrorCount" /\ ret = "ESP_OK") => (out.w /\ out.v = incs)
    /\ (op = "IncrementErrorCount" /\ ret = "ESP_OK") =>
           s_metrics.error_count = Inc32(pre.error_count)
    /\ (op \notin {"boot", "Init", "IncrementErrorCount"}) =>
           s_metrics.error_count = pre.error_count

\* C4 witness: GetErrorCount returns 3 after three increments.
C4_Witness ==
    /\ op = "GetErrorCount" /\ ret = "ESP_OK" /\ out.w /\ out.v = U32(3) /\ incs = U32(3)

\* C5: the first successful GetCpuUsage after an initializing Init returns
\* exactly 0, for every snapshot and whatever an earlier session left stored.
C5_FirstCpuUsageZero ==
    (IsCpuCall /\ ret = "ESP_OK" /\ cpu_calls = 1) => (out.w /\ out.v = FZero)

\* C5 witness: a first call of a session that began over a stale sample.
C5_Witness ==
    /\ IsCpuCall /\ ret = "ESP_OK" /\ cpu_calls = 1 /\ stale_sample
    /\ s_metrics.prev_total_run_time > 0

\* C6 as claimed: every value a successful GetCpuUsage writes is in [0, 100].
C6_CpuUsageInRange ==
    (IsCpuCall /\ ret = "ESP_OK") =>
        (out.w /\ FLe(FZero, out.v) /\ FLe(out.v, FloatOfNat(100)))

\* C7 as claimed: when a sample is followed by one with totalDelta > 0 and
\* 0 <= idleDelta <= totalDelta, the call succeeds with
\* 100 - idleDelta*100/totalDelta: a value in [0, 100], 0 when the deltas are
\* equal, 100 when idleDelta is 0, the exact quotient when it is an integer.
C7_WellBehavedUsage ==
    LET totalDelta == s_metrics.prev_total_run_time - pre.prev_total_run_time
        idleDelta  == s_metrics.prev_idle_time - pre.prev_idle_time
    IN (/\ IsCpuCall /\ ret = "ESP_OK" /\ cpu_calls = 2
        /\ pre.prev_total_run_time > 0
        /\ totalDelta > 0 /\ idleDelta >= 0 /\ idleDelta <= totalDelta) =>
          /\ out.w
          /\ FLe(FZero, out.v) /\ FLe(out.v, FloatOfNat(100))
          /\ idleDelta = totalDelta => out.v = FZero
          /\ idleDelta = 0 => out.v = FloatOfNat(100)
          /\ (idleDelta * 100) % totalDelta = 0 =>
                out.v = FloatOfNat(100 - (idleDelta * 100) \div totalDelta)

\* C8: a failed scratch allocation makes GetCpuUsage return NoMemory with
\* MetricsState (the previous sample included) unchanged and no output
\* written, so the next call measures from the sample stored before.
C8_NoMemLeavesState ==
    (IsCpuCall /\ ret = "ESP_ERR_NO_MEM") =>
        /\ s_metrics = pre
        /\ ~out.w
        /\ calls[Len(calls)] = P("malloc", NULL)

\* C8 witness: the allocation fails while a previous sample is stored.
C8_Witness ==
    /\ IsCpuCall /\ ret = "ESP_ERR_NO_MEM"
    /\ pre.prev_total_run_time > 0 /\ s_metrics.prev_total_run_time > 0

\* C9: GetTemperature, initialized, capability disabled, non-null output:
\* NotSupported, output NaN, no sensor read, MetricsState unchanged.
C9_TemperatureNotSupported ==
    (/\ IsTempCall /\ pre.is_initialized /\ ~pre.temp_sensor_enabled
     /\ ret # "ESP_ERR_INVALID_ARG") =>
        /\ ret = "ESP_ERR_NOT_SUPPORTED"
        /\ out.w /\ out.v = NaN
        /\ calls = << >>
        /\ s_metrics = pre

\* C9 witness: the call is made in a session whose sensor failed to start.
C9_Witness ==
    /\ op = "GetTemperature" /\ pre.is_initialized /\ ~pre.temp_sensor_enabled
    /\ ret = "ESP_ERR_NOT_SUPPORTED"

\* The sensor read the last call made failed.
TempReadFailed ==
    /\ IsTempCall /\ pre.is_initialized /\ pre.temp_sensor_enabled
    /\ Len(calls) = 1 /\ calls[1].fn = "temp_sensor_read_celsius"
    /\ calls[1].rc # "ESP_OK"

\* C10: capability enabled, live read fails: the result is the provider's
\* code, the output is the cached value from before the call, and the cache
\* is unchanged.
C10_TemperatureFallback ==
    TempReadFailed =>
        /\ ret = calls[1].rc
        /\ out.w /\ out.v = pre.last_temperature
        /\ s_metrics = pre

\* C10 witness: an out-of-range read fails with ESP_ERR_INVALID_STATE after
\* writing its reading; the caller still gets the cached 25 degrees.
C10_Witness ==
    /\ TempReadFailed /\ calls[1].rc = "ESP_ERR_INVALID_STATE"
    /\ pre.last_temperature = FloatOfNat(25)
    /\ out.w /\ out.v = FloatOfNat(25)

\* The seed read of an initializing Init (line 64) was made and failed.
SeedReadFailed ==
    /\ op = "Init" /\ ~pre.is_initialized
    /\ Len(calls) = 5 /\ calls[4].fn = "temp_sensor_read_celsius"
    /\ calls[4].rc # "ESP_OK"

\* C11 as claimed: while initialized, last_temperature is NaN or a value a
\* successful sensor read delivers; after an Init whose seed read failed it
\* is NaN, and a failing GetTemperature that follows outputs NaN.
C11_LastTemperatureValid ==
    /\ s_metrics.is_initialized => s_metrics.last_temperature \in {NaN} \cup Temps
    /\ SeedReadFailed => s_metrics.last_temperature = NaN
    /\ (TempReadFailed /\ pre.last_temperature \notin Temps) => (out.w /\ out.v = NaN)

\* The live sensor read the last call made succeeded.
TempReadOk ==
    /\ IsTempCall /\ pre.is_initialized /\ pre.temp_sensor_enabled
    /\ Len(calls) = 1 /\ calls[1].fn = "temp_sensor_read_celsius"
    /\ calls[1].rc = "ESP_OK"

\* C12: capability enabled, live read succeeds: the result is success, the
\* output is the value read and so is last_temperature afterwards; a failed
\* read that comes next outputs that value.
C12_TemperatureSuccess ==
    /\ [](TempReadOk =>
            /\ ret = "ESP_OK"
            /\ out.w /\ out.v = calls[1].ans
            /\ s_metrics.last_temperature = calls[1].ans)
    /\ [][(TempReadOk /\ TempReadFailed') =>
             (out'.w /\ out'.v = calls[1].ans)]_vars

\* C12 witness: a read of 30 degrees replaces a cached 25.
C12_Witness ==
    /\ TempReadOk /\ ret = "ESP_OK"
    /\ pre.last_temperature = FloatOfNat(25)
    /\ calls[1].ans = FloatOfNat(30) /\ s_metrics.last_temperature = FloatOfNat(30)

\* The last call ran one of the wireless getters, directly or through
\* GetMetric, past its two argument checks.
IsStatusCall == op = "GetWifiStatus" \/ (op = "GetMetric" /\ mtype = "ESP32_METRIC_WIFI_STATUS")
IsSignalCall == op = "GetWifiSignal" \/ (op = "GetMetric" /\ mtype = "ESP32_METRIC_WIFI_SIGNAL")
IsRateCall == op = "GetWifiDataRate" \/ (op = "GetMetric" /\ mtype = "ESP32_METRIC_WIFI_DATA_RATE")
Ran == pre.is_initialized /\ ~null_out

\* C13: GetWifiStatus asks each provider at most once; with the mode off or
\* access-point-only the status is Disconnected and the record is not
\* queried; otherwise the record query decides: success Connected, "not
\* connected" Disconnected, any other failure NotInitialized. The status
\* written is never Connecting or Disconnecting.
C13_WifiStatusClassified ==
    (IsStatusCall /\ Ran) =>
        /\ out.w
        /\ out.v \in {"ESP32_WIFI_CONNECTED", "ESP32_WIFI_DISCONNECTED",
                      "ESP32_WIFI_NOT_INITIALIZED"}
        /\ out.v \notin {"ESP32_WIFI_CONNECTING", "ESP32_WIFI_DISCONNECTING"}
        /\ Len(calls) \in {1, 2} /\ calls[1].fn = "esp_wifi_get_mode"
        /\ calls[1].rc = "ESP_OK" =>
              IF calls[1].ans \in {"WIFI_MODE_NULL", "WIFI_MODE_AP"}
              THEN Len(calls) = 1 /\ out.v = "ESP32_WIFI_DISCONNECTED"
              ELSE /\ Len(calls) = 2 /\ calls[2].fn = "esp_wifi_sta_get_ap_info"
                   /\ calls[2].rc = "ESP_OK" => out.v = "ESP32_WIFI_CONNECTED"
                   /\ calls[2].rc = "ESP_ERR_WIFI_NOT_CONNECT" =>
                         out.v = "ESP32_WIFI_DISCONNECTED"
                   /\ calls[2].rc \notin {"ESP_OK", "ESP_ERR_WIFI_NOT_CONNECT"} =>
                         out.v = "ESP32_WIFI_NOT_INITIALIZED"

\* C13 witness: station-plus-access-point mode, the record query fails with
\* a code other than "not connected".
C13_Witness ==
    /\ IsStatusCall /\ Ran /\ Len(calls) = 2
    /\ calls[1].rc = "ESP_OK" /\ calls[1].ans = "WIFI_MODE_APSTA"
    /\ calls[2].rc = "ESP_ERR_WIFI_CONN"
    /\ out.w /\ out.v = "ESP32_WIFI_NOT_INITIALIZED"

\* C14 as claimed: initialized, non-null output: GetWifiStatus returns
\* success whatever the radio stack answers, a failing mode query included.
C14_WifiStatusAlwaysOk ==
    (IsStatusCall /\ Ran) => ret = "ESP_OK"

\* C15: GetWifiSignal queries the record once; on success it returns success
\* with the record's RSSI, on failure the provider's code with output 0; a
\* success never carries anything but the record's RSSI.
C15_WifiSignal ==
    (IsSignalCall /\ Ran) =>
        /\ Len(calls) = 1 /\ calls[1].fn = "esp_wifi_sta_get_ap_info"
        /\ ret = calls[1].rc
        /\ out.w
        /\ calls[1].rc = "ESP_OK" => out.v = calls[1].ans.rssi
        /\ calls[1].rc # "ESP_OK" => out.v = 0
        /\ s_metrics = pre

\* C15 witness: the query fails, leaving -50 in the record's field; the
\* caller gets 0 and the provider's code.
C15_Witness ==
    /\ IsSignalCall /\ Ran /\ Len(calls) = 1
    /\ calls[1].rc = "ESP_ERR_WIFI_NOT_CONNECT" /\ calls[1].ans.rssi = -50
    /\ ret = "ESP_ERR_WIFI_NOT_CONNECT" /\ out.w /\ out.v = 0

\* C16: with both radio queries answered, the rate before derating depends
\* on the negotiated PHY mode and the channel width only: long-range 0.5,
\* HT 72 (20 MHz) or 144 (40 MHz), VHT 96 or 200, any other mode 11, where
\* 40 MHz means a secondary channel is present. At -90 dBm and above nothing
\* is taken off, so the output is that rate; below, it is that rate derated.
C16_NominalRate ==
    (/\ IsRateCall /\ Ran /\ Len(calls) = 2
     /\ calls[1].rc = "ESP_OK" /\ calls[2].rc = "ESP_OK") =>
        LET phy    == calls[2].ans
            wide   == calls[1].ans.second # "WIFI_SECOND_CHAN_NONE"
            rssi   == calls[1].ans.rssi
            mbps   == IF phy = "WIFI_PHY_MODE_LR" THEN FHalf
                      ELSE IF phy = "WIFI_PHY_MODE_HT"
                      THEN FloatOfNat(IF wide THEN 144 ELSE 72)
                      ELSE IF phy = "WIFI_PHY_MODE_VHT"
                      THEN FloatOfNat(IF wide THEN 200 ELSE 96)
                      ELSE FloatOfNat(11)
        IN /\ out.w
           /\ rssi >= -90 => out.v = mbps
           /\ out.v = DeratedRate(mbps, rssi)

\* C16 witness: VHT with a secondary channel at -50 dBm gives 200 Mbps.
C16_Witness ==
    /\ IsRateCall /\ Ran /\ Len(calls) = 2 /\ calls[2].rc = "ESP_OK"
    /\ calls[2].ans = "WIFI_PHY_MODE_VHT"
    /\ calls[1].ans = [rssi |-> -50, second |-> "WIFI_SECOND_CHAN_ABOVE"]
    /\ ret = "ESP_OK" /\ out.w /\ out.v = FloatOfNat(200)

\* C17 as claimed: when any radio query GetWifiDataRate made failed (the
\* record query or the PHY-mode query) it returns that query's code with
\* output 0; it returns success only when every query it made succeeded.
C17_RateQueryFailures ==
    (IsRateCall /\ Ran) =>
        /\ \A i \in 1..Len(calls) :
              calls[i].rc # "ESP_OK" => (ret = calls[i].rc /\ out.w /\ out.v = FZero)
        /\ ret = "ESP_OK" => \A i \in 1..Len(calls) : calls[i].rc = "ESP_OK"

\* An Init that initialized (and so classified the reset cause).
FreshInit == op = "Init" /\ ~pre.is_initialized

\* C18: the classifier labels a code inside the 12-entry table with the
\* entry at that index and any other code, a negative one included, with
\* "Unknown reason"; while initialized the cached label is never null, and
\* neither is the one GetRebootReason hands out.
C18_ResetCauseLabel ==
    /\ Len(s_reset_reason_strings) = 12
    /\ FreshInit =>
          LET code == s_metrics.reboot_reason.code
              label == s_metrics.reboot_reason.reason
          IN /\ code \in 0..11 => label = s_reset_reason_strings[code + 1]
             /\ code \notin 0..11 => label = "Unknown reason"
             /\ code = 0 => label = "Unknown"
             /\ code = 1 => label = "Power-on reset"
             /\ code = 11 => label = "Bootstrapping reset"
    /\ s_metrics.is_initialized => s_metrics.reboot_reason.reason # NULL
    /\ (op = "GetRebootReason" /\ ret = "ESP_OK") => (out.w /\ out.v.reason # NULL)

\* C18 witness: the reset-cause reader reports a negative code.
C18_Witness ==
    /\ FreshInit /\ s_metrics.reboot_reason.code = -1
    /\ s_metrics.reboot_reason.reason = "Unknown reason"

\* C19: GetMetric, initialized, with a type that is none of the ten
\* enumerators: InvalidArgument, the slot not written, no provider called,
\* MetricsState unchanged.
C19_UnknownMetricType ==
    (op = "GetMetric" /\ pre.is_initialized /\ mtype \notin MetricTypes) =>
        /\ ret = "ESP_ERR_INVALID_ARG"
        /\ ~out.w
        /\ calls = << >>
        /\ s_metrics = pre

\* C19 witness: type 99 with a usable slot, in a session that has counted errors.
C19_Witness ==
    /\ op = "GetMetric" /\ pre.is_initialized /\ mtype = "99" /\ ~null_out
    /\ pre.error_count # U32(0) /\ ret = "ESP_ERR_INVALID_ARG"

\* C20: a call handed a null output returns InvalidState when uninitialized
\* and InvalidArgument when initialized; in both cases no provider is
\* called and MetricsState is unchanged; GetCpuUsage in particular does not
\* advance the stored previous sample.
C20_NullOutputRejected ==
    null_out =>
        /\ ret = (IF pre.is_initialized THEN "ESP_ERR_INVALID_ARG"
                                         ELSE "ESP_ERR_INVALID_STATE")
        /\ ~out.w
        /\ calls = << >>
        /\ s_metrics = pre

\* C20 witness: GetCpuUsage(NULL) while a previous sample is stored.
C20_Witness ==
    /\ op = "GetCpuUsage" /\ null_out /\ pre.is_initialized
    /\ pre.prev_total_run_time = 8 /\ s_metrics.prev_total_run_time = 8
    /\ ret = "ESP_ERR_INVALID_ARG"

\* The last call began and ended inside one session.
SameSession == pre.is_initialized /\ s_metrics.is_initialized

\* C21 as claimed: inside a session no call leaves error_count or
\* brownout_count lower than it found it.
C21_CountersNeverDecrease ==
    SameSession =>
        /\ Le32(pre.error_count, s_metrics.error_count)
        /\ pre.brownout_count <= s_metrics.brownout_count

\* C21 as amended: inside a session brownout_count never decreases, and
\* error_count never decreases except at the overflow of its 32 bits: the
\* IncrementErrorCount call that finds it at 4294967295 leaves it at 0, the
\* counter not being held at its maximum.
C21_CountersMonotoneUntilWrap ==
    /\ SameSession => pre.brownout_count <= s_metrics.brownout_count
    /\ SameSession =>
          \/ Le32(pre.error_count, s_metrics.error_count)
          \/ /\ op = "IncrementErrorCount"
             /\ pre.error_count = Max32 /\ s_metrics.error_count = U32(0)
    /\ (op = "IncrementErrorCount" /\ ret = "ESP_OK") =>
          /\ pre.error_count = Max32 => s_metrics.error_count = U32(0)
          /\ pre.error_count # Max32 =>
                (s_metrics.error_count # pre.error_count
                 /\ Le32(pre.error_count, s_metrics.error_count))

\* C21 witness: the increment that wraps the counter.
C21_Witness ==
    /\ op = "IncrementErrorCount" /\ ret = "ESP_OK"
    /\ pre.error_count = Max32 /\ s_metrics.error_count = U32(0)

\* The samples that calls made one after the other can find stored: the one
\* Init leaves, or a whole snapshot.
SerialBaselines ==
    { << 0, 0 >> } \cup
    { << sn.total, IdleTimeOf(sn.tasks, 1) >> : sn \in EnvTasks.snaps }

\* Task t has read the previous sample for the call it is in.
HasBaseline(t) == cpu_task[t].pc \in {"computed", "stored_total"}

\* C22: as long as every GetCpuUsage call of the session took the mutex, a
\* caller computes against the sample that was stored when it entered,
\* which is the one Init left or the whole snapshot of the call before it.
\* (Without the mutex a caller can read a sample no order of whole calls
\* stores: the witness.)
C22_ExclusionSerializes ==
    ~excl.bypassed =>
        \A t \in Callers :
           HasBaseline(t) =>
              /\ << cpu_task[t].bt, cpu_task[t].bi >> = cpu_task[t].entry
              /\ cpu_task[t].entry \in SerialBaselines

\* C22 witness: without the mutex, a caller has computed its deltas from the
\* total of one snapshot and the idle counter of another.
C22_Witness ==
    /\ excl.bypassed
    /\ \E t \in Callers :
          /\ HasBaseline(t) /\ cpu_task[t].bt > 0
          /\ << cpu_task[t].bt, cpu_task[t].bi >> \notin SerialBaselines

\* How many of the last call's provider calls went to fn.
CallsTo(fn) == Cardinality({i \in 1..Len(calls) : calls[i].fn = fn})

\* C23: Deinit returns success. Uninitialized, it changes nothing and calls
\* no provider. Initialized, it stops the sensor once if the capability is
\* enabled and not at all otherwise, clears the capability flag and
\* is_initialized and touches nothing else; from then on every getter is
\* refused with InvalidState, and only Init makes the facade initialized.
C23_Deinit ==
    /\ op = "Deinit" =>
          /\ ret = "ESP_OK"
          /\ ~pre.is_initialized => (s_metrics = pre /\ calls = << >>)
          /\ pre.is_initialized =>
                /\ CallsTo("temp_sensor_stop") = (IF pre.temp_sensor_enabled THEN 1 ELSE 0)
                /\ Len(calls) = CallsTo("temp_sensor_stop")
                /\ s_metrics = [pre EXCEPT !.temp_sensor_enabled = FALSE,
                                           !.is_initialized = FALSE]
                /\ pre.temp_sensor_enabled => ~sensor_on
    /\ (op \in GetterOps /\ ~pre.is_initialized) =>
          (ret = "ESP_ERR_INVALID_STATE" /\ ~s_metrics.is_initialized)
    /\ (~pre.is_initialized /\ s_metrics.is_initialized) => op = "Init"

\* C23 witness: Deinit of a session whose sensor was running.
C23_Witness ==
    /\ op = "Deinit" /\ pre.is_initialized /\ pre.temp_sensor_enabled
    /\ calls = << P("temp_sensor_stop", "-") >>
    /\ ~s_metrics.temp_sensor_enabled /\ ~s_metrics.is_initialized

\* C24: an initializing Init returns success and sets is_initialized for
\* every outcome of the sensor's configure and start steps. If either fails,
\* the capability is off, last_temperature is NaN and no read is made; if
\* both succeed, the capability is on and exactly one seed read is made.
C24_InitSensorOutcomes ==
    FreshInit =>
        /\ ret = "ESP_OK" /\ s_metrics.is_initialized
        /\ CallsTo("temp_sensor_config") = 1 /\ calls[2].fn = "temp_sensor_config"
        /\ IF calls[2].rc = "ESP_OK" /\ calls[3].fn = "temp_sensor_start"
              /\ calls[3].rc = "ESP_OK"
           THEN /\ s_metrics.temp_sensor_enabled
                /\ CallsTo("temp_sensor_read_celsius") = 1
           ELSE /\ ~s_metrics.temp_sensor_enabled
                /\ s_metrics.last_temperature = NaN
                /\ CallsTo("temp_sensor_read_celsius") = 0
                /\ calls[2].rc = "ESP_OK" =>
                      (calls[3].fn = "temp_sensor_start" /\ calls[3].rc # "ESP_OK")
                /\ calls[2].rc # "ESP_OK" => CallsTo("temp_sensor_start") = 0

\* C24 witness: the sensor fails to start in a session that follows one with
\* a cached reading.
C24_Witness ==
    /\ FreshInit /\ pre.last_temperature = FloatOfNat(25)
    /\ calls[3] = P("temp_sensor_start", "ESP_FAIL")
    /\ ~s_metrics.temp_sensor_enabled /\ s_metrics.last_temperature = NaN

\* The last call ran GetUptime, directly or through GetMetric, to success.
UptimeOk ==
    /\ op = "GetUptime" \/ (op = "GetMetric" /\ mtype = "ESP32_METRIC_UPTIME")
    /\ ret = "ESP_OK"

\* C25: a successful GetUptime returns the clock's microseconds divided by
\* 1000, rounded down, and stores the same value in last_uptime; with a
\* clock that does not run backwards the value is never below the uptime
\* read before it, and is above it when the clock has advanced by 1 ms or
\* more since that read.
C25_Uptime ==
    /\ [](UptimeOk =>
            /\ out.w
            /\ out.v * 1000 <= clock_us /\ clock_us < (out.v + 1) * 1000
            /\ s_metrics.last_uptime = out.v
            /\ out.v >= pre.last_uptime)
    /\ [][(UptimeOk' /\ s_metrics.is_initialized
           /\ clock_us' >= clock_us + 1000) =>
             out'.v > s_metrics.last_uptime]_vars

\* C25 witness: 1500 microseconds after boot the uptime is 1 ms, up from 0.
C25_Witness ==
    /\ UptimeOk /\ clock_us = 1500 /\ out.w /\ out.v = 1
    /\ pre.last_uptime = 0 /\ s_metrics.last_uptime = 1

\* The snapshot uxTaskGetSystemState delivered to the last GetCpuUsage.
SnapshotTaken == calls[3].ans

\* The run-time counters of the snapshot's tasks named IDLE, in array order.
IdleCounters ==
    LET IsIdle(t) == t.pcTaskName = "IDLE"
        idles == SelectSeq(SnapshotTaken.tasks, IsIdle)
    IN [i \in 1..Len(idles) |-> idles[i].ulRunTimeCounter]

\* C26: every successful GetCpuUsage leaves prev_total_run_time equal to the
\* total of the snapshot it took and prev_idle_time equal to that snapshot's
\* idle counter (0 when the snapshot names no IDLE task), whether the result
\* came from the first-sample branch, a zero total delta or a computed delta.
C26_SampleOverwritten ==
    (IsCpuCall /\ ret = "ESP_OK") =>
        /\ calls[3].fn = "uxTaskGetSystemState"
        /\ s_metrics.prev_total_run_time = SnapshotTaken.total
        /\ s_metrics.prev_idle_time =
              (IF IdleCounters = << >> THEN 0 ELSE IdleCounters[1])

\* C26 witness: the total has not moved since the previous sample (8, 3);
\* the result is 0 and the stored idle time is replaced all the same.
C26_Witness ==
    /\ IsCpuCall /\ ret = "ESP_OK" /\ out.v = FZero
    /\ pre.prev_total_run_time = 8 /\ pre.prev_idle_time = 3
    /\ SnapshotTaken.total = 8
    /\ s_metrics.prev_total_run_time = 8 /\ s_metrics.prev_idle_time = 0

\* C27: when a previous sample exists and the snapshot's total is less than
\* or equal to the stored previous total, GetCpuUsage returns 0.
C27_NonPositiveDeltaIsZero ==
    (/\ IsCpuCall /\ ret = "ESP_OK"
     /\ pre.prev_total_run_time > 0
     /\ SnapshotTaken.total <= pre.prev_total_run_time) =>
        (out.w /\ out.v = FZero)

\* Twice the value of a float that is a multiple of one half.
TwiceOf(f) == IF f.e + 1 >= 0 THEN f.m * Pow2(f.e + 1) ELSE f.m \div Pow2(-(f.e + 1))

\* Two positive floats that are equal or next to each other.
Adjacent(a, b) ==
    /\ ~a.nan /\ ~b.nan /\ a.s = 0 /\ b.s = 0 /\ a.m # 0 /\ b.m # 0
    /\ \/ a.e = b.e /\ a.m - b.m \in {-1, 0, 1}
       \/ a.e = b.e + 1 /\ a.m = Pow2(FloatPrec - 1) /\ b.m = Pow2(FloatPrec) - 1
       \/ b.e = a.e + 1 /\ b.m = Pow2(FloatPrec - 1) /\ a.m = Pow2(FloatPrec) - 1

\* A data-rate estimate made from a record and a PHY mode that both queries
\* delivered.
RateEstimated ==
    /\ IsRateCall /\ ret = "ESP_OK" /\ Len(calls) = 2 /\ calls[2].rc = "ESP_OK"

\* C28: a successful GetWifiDataRate returns exactly the nominal rate for
\* rssi >= -90 and exactly half of it for rssi <= -110; in between it returns
\* the float next to or equal to nominal * (130 + rssi) / 40, the value of
\* nominal * (1 - (-90 - rssi)/40); the result always lies within
\* [nominal/2, nominal] and is strictly positive.
C28_SignalDerating ==
    RateEstimated =>
        LET rssi    == calls[1].ans.rssi
            nominal == NominalRate(calls[2].ans, calls[1].ans.second)
            half    == [nominal EXCEPT !.e = @ - 1]
            onRamp  == FDiv(FloatOfNat(TwiceOf(nominal) * (130 + rssi)), FloatOfNat(80))
        IN /\ out.w /\ ~out.v.nan /\ out.v.s = 0 /\ out.v.m # 0
           /\ FLe(half, out.v) /\ FLe(out.v, nominal)
           /\ rssi >= -90 => out.v = nominal
           /\ rssi <= -110 => out.v = half
           /\ (-110 < rssi /\ rssi < -90) =>
                 /\ Adjacent(out.v, onRamp)
                 /\ out.v # half /\ out.v # nominal

\* C28 witness: 200 Mbps nominal at -100 dBm, three quarters of the way down
\* to the floor, gives 150 Mbps.
C28_Witness ==
    /\ RateEstimated /\ calls[1].ans.rssi = -100
    /\ calls[2].ans = "WIFI_PHY_MODE_VHT" /\ calls[1].ans.second = "WIFI_SECOND_CHAN_ABOVE"
    /\ out.v = FloatOfNat(150)

\* What the reset-cause reader answered to the last call, an Init.
ResetCauseRead == calls[Len(calls)].ans

IsBrownoutCall ==
    op = "GetBrownoutCount" \/ (op = "GetMetric" /\ mtype = "ESP32_METRIC_BROWNOUT_COUNT")
IsRebootCall ==
    op = "GetRebootReason" \/ (op = "GetMetric" /\ mtype = "ESP32_METRIC_REBOOT_REASON")

\* C29: after an initializing Init brownout_count is 1 if the reset-cause
\* code that Init read is the brownout code and 0 otherwise; no other call
\* changes it; it is 0 or 1 in every state; GetBrownoutCount returns it.
C29_BrownoutCount ==
    /\ FreshInit =>
          /\ calls[Len(calls)].fn = "esp_reset_reason"
          /\ ResetCauseRead = ESP_RST_BROWNOUT => s_metrics.brownout_count = 1
          /\ ResetCauseRead # ESP_RST_BROWNOUT => s_metrics.brownout_count = 0
    /\ ~FreshInit => s_metrics.brownout_count = pre.brownout_count
    /\ s_metrics.brownout_count \in {0, 1}
    /\ (IsBrownoutCall /\ ret = "ESP_OK") =>
          (out.w /\ out.v = s_metrics.brownout_count)

\* C29 witness: a session started by a brownout follows one that was not.
C29_Witness ==
    /\ FreshInit /\ pre.reboot_reason.reason # NULL /\ pre.brownout_count = 0
    /\ ResetCauseRead = ESP_RST_BROWNOUT /\ s_metrics.brownout_count = 1

\* C30: an initializing Init queries the reset-cause reader exactly once and
\* caches the code it read; no other call queries the reader or changes the
\* cached (code, label) pair; every successful GetRebootReason returns the
\* cached pair.
C30_ResetCauseCached ==
    /\ FreshInit =>
          /\ CallsTo("esp_reset_reason") = 1
          /\ calls[Len(calls)].fn = "esp_reset_reason"
          /\ s_metrics.reboot_reason.code = ResetCauseRead
    /\ ~FreshInit =>
          /\ CallsTo("esp_reset_reason") = 0
          /\ s_metrics.reboot_reason = pre.reboot_reason
    /\ (IsRebootCall /\ ret = "ESP_OK") =>
          (out.w /\ out.v = pre.reboot_reason /\ out.v = s_metrics.reboot_reason)

\* C30 witness: GetRebootReason, after an error was counted in the session,
\* returns the pair cached from a brownout reset.
C30_Witness ==
    /\ op = "GetRebootReason" /\ ret = "ESP_OK" /\ pre.error_count = U32(1)
    /\ out.v.code = ESP_RST_BROWNOUT /\ out.v = s_metrics.reboot_reason

\* The direct getter of a metric type, called with the same output slot.
DirectCall(E, type, isNull) ==
    CASE type = "ESP32_METRIC_CPU_USAGE" ->
           \E mallocOk \in E.mallocs, snap \in E.snaps :
              GetCpuUsageBody(isNull, mallocOk, snap)
      [] type = "ESP32_METRIC_UPTIME" ->
           \E now \in E.clocks : now >= clock_us /\ GetUptimeBody(isNull, now)
      [] type = "ESP32_METRIC_WIFI_SIGNAL" ->
           \E apRet \in E.apRets, ap \in E.aps : GetWifiSignalBody(isNull, apRet, ap)
      [] type = "ESP32_METRIC_WIFI_STATUS" ->
           \E modeRet \in E.modeRets, mode \in E.modes, apRet \in E.apRets :
              GetWifiStatusBody(isNull, modeRet, mode, apRet)
      [] type = "ESP32_METRIC_TEMPERATURE" ->
           \E rd \in E.reads : GetTemperatureBody(isNull, rd)
      [] type = "ESP32_METRIC_BROWNOUT_COUNT" -> GetBrownoutCountBody(isNull)
      [] type = "ESP32_METRIC_REBOOT_REASON" -> GetRebootReasonBody(isNull)
      [] type = "ESP32_METRIC_WIFI_DATA_RATE" ->
           \E apRet \in E.apRets, ap \in E.aps :
              GetWifiDataRateBody(E, isNull, apRet, ap)
      [] type = "ESP32_METRIC_LOG_LEVEL" ->
           \E level \in E.levels : GetLogLevelBody(isNull, level)
      [] type = "ESP32_METRIC_ERROR_COUNT" -> GetErrorCountBody(isNull)

\* GetMetric on an initialized facade (lines 388-429).
MetricCall(E, type, isNull) ==
    IF isNull THEN Reject("ESP_ERR_INVALID_ARG") ELSE Dispatch(E, type)

\* The metric type that selects each direct getter.
TypeOfGetter ==
    [ GetCpuUsage |-> "ESP32_METRIC_CPU_USAGE", GetUptime |-> "ESP32_METRIC_UPTIME",
      GetWifiSignal |-> "ESP32_METRIC_WIFI_SIGNAL",
      GetWifiStatus |-> "ESP32_METRIC_WIFI_STATUS",
      GetTemperature |-> "ESP32_METRIC_TEMPERATURE",
      GetBrownoutCount |-> "ESP32_METRIC_BROWNOUT_COUNT",
      GetRebootReason |-> "ESP32_METRIC_REBOOT_REASON",
      GetWifiDataRate |-> "ESP32_METRIC_WIFI_DATA_RATE",
      GetLogLevel |-> "ESP32_METRIC_LOG_LEVEL",
      GetErrorCount |-> "ESP32_METRIC_ERROR_COUNT" ]

\* C31: from an initialized state, whatever GetMetric(type, slot) does for a
\* valid type (result code, value written, MetricsState, provider calls) the
\* type's direct getter can do with the same slot, and whatever a direct
\* getter does GetMetric can do with that getter's type.
C31_GetMetricAsDirect ==
    /\ [][(op' = "GetMetric" /\ mtype' \in MetricTypes /\ s_metrics.is_initialized) =>
            DirectCall(EnvDispatch, mtype', null_out')]_vars
    /\ [][(op' \in DOMAIN TypeOfGetter /\ s_metrics.is_initialized) =>
            MetricCall(EnvDispatch, TypeOfGetter[op'], null_out')]_vars

\* C31 witness: GetMetric(TEMPERATURE) reads the sensor, caches and returns 25.
C31_Witness ==
    /\ op = "GetMetric" /\ mtype = "ESP32_METRIC_TEMPERATURE" /\ ret = "ESP_OK"
    /\ out.v = FloatOfNat(25) /\ s_metrics.last_temperature = FloatOfNat(25)
    /\ Len(calls) = 1 /\ calls[1].fn = "temp_sensor_read_celsius"

\* The getters that only read cached fields or providers.
ReadOnlyGetters ==
    {"GetBrownoutCount", "GetErrorCount", "GetRebootReason", "GetWifiStatus",
     "GetWifiSignal", "GetWifiDataRate", "GetLogLevel"}

\* C32: GetBrownoutCount, GetErrorCount, GetRebootReason, GetWifiStatus,
\* GetWifiSignal, GetWifiDataRate and GetLogLevel leave every field of
\* s_metrics as they found it, whatever they return; error_count is changed
\* only by IncrementErrorCount and by an initializing Init, brownout_count
\* and reboot_reason only by an initializing Init.
C32_ReadOnlyGetters ==
    /\ op \in ReadOnlyGetters => s_metrics = pre
    /\ s_metrics.error_count # pre.error_count =>
          (op = "IncrementErrorCount" \/ FreshInit)
    /\ s_metrics.brownout_count # pre.brownout_count => FreshInit
    /\ s_metrics.reboot_reason # pre.reboot_reason => FreshInit

\* C32 witness: GetWifiDataRate fails on a station that is not connected, in
\* a session that has cached a temperature and counted an error.
C32_Witness ==
    /\ op = "GetWifiDataRate" /\ ret = "ESP_ERR_WIFI_NOT_CONNECT"
    /\ pre.is_initialized /\ pre.error_count = U32(1)
    /\ pre.last_temperature = FloatOfNat(25)
    /\ s_metrics = pre

\* No task is inside IncrementErrorCount.
IncrementsQuiet == \A t \in Callers : inc_task[t].pc = "idle"

\* C33: when the tasks that called IncrementErrorCount in a session have all
\* returned, error_count equals the number of calls that completed, however
\* the calls were interleaved.
C33_ConcurrentIncrements ==
    (s_metrics.is_initialized /\ IncrementsQuiet) => s_metrics.error_count = incs

\* The positions in the last call's provider calls of the buffer acquisitions
\* that succeeded, and of the releases.
BuffersAcquired ==
    {i \in 1..Len(calls) : calls[i].fn = "malloc" /\ calls[i].rc # NULL}
BuffersReleased == {i \in 1..Len(calls) : calls[i].fn = "free"}

\* C34: a GetCpuUsage call that acquires the task-list buffer releases it
\* exactly once, after acquiring it, before it returns; no buffer is held
\* once a call has returned; a call whose acquisition fails, and every call
\* that acquires nothing, releases nothing.
C34_BufferReleased ==
    /\ heap_held = 0
    /\ Cardinality(BuffersAcquired) <= 1
    /\ Cardinality(BuffersReleased) = Cardinality(BuffersAcquired)
    /\ \A i \in BuffersAcquired : \A j \in BuffersReleased : i < j
    /\ BuffersAcquired # {} => IsCpuCall
    /\ (IsCpuCall /\ ret = "ESP_ERR_NO_MEM") =>
          (CallsTo("malloc") = 1 /\ BuffersAcquired = {} /\ BuffersReleased = {})
    /\ (IsCpuCall /\ ret = "ESP_OK") => Cardinality(BuffersAcquired) = 1

\* C34 witness: a call that computes a usage from deltas took the buffer and
\* gave it back.
C34_Witness ==
    /\ IsCpuCall /\ ret = "ESP_OK" /\ pre.prev_total_run_time > 0
    /\ out.v # FZero
    /\ BuffersAcquired = {2} /\ BuffersReleased = {4} /\ heap_held = 0

\* Positions in a call's provider calls: starts, starts that succeeded,
\* stops, and reads of the sensor.
SensorStarts(cs) == {i \in 1..Len(cs) : cs[i].fn = "temp_sensor_start"}
SensorStarted(cs) == {i \in SensorStarts(cs) : cs[i].rc = "ESP_OK"}
SensorStops(cs) == {i \in 1..Len(cs) : cs[i].fn = "temp_sensor_stop"}
SensorReadsIn(cs) == {i \in 1..Len(cs) : cs[i].fn = "temp_sensor_read_celsius"}

\* C35: with calls made one at a time, the sensor is asked to start only
\* while it is not started and to stop only while it is started, so that
\* successful starts and stops alternate, a start first; it is read only
\* after a successful start and before the next stop; temp_sensor_enabled is
\* true only while is_initialized is.
C35_SensorProtocol ==
    /\ [][LET cs == calls'
              started == SensorStarted(cs)
              stops == SensorStops(cs)
          IN /\ Cardinality(SensorStarts(cs)) + Cardinality(stops) <= 1
             /\ SensorStarts(cs) # {} => ~sensor_on
             /\ stops # {} => sensor_on
             /\ \A i \in SensorReadsIn(cs) :
                   sensor_on \/ (\E j \in started : j < i)
             /\ sensor_on' = (IF stops # {} THEN FALSE
                              ELSE IF started # {} THEN TRUE ELSE sensor_on)]_vars
    /\ [](op = "boot" => ~sensor_on)
    /\ [](s_metrics.temp_sensor_enabled => s_metrics.is_initialized)

\* C35 witness: a second session starts the sensor again after Deinit
\* stopped it, and reads it.
C35_Witness ==
    /\ FreshInit /\ pre.reboot_reason.reason # NULL /\ pre.last_temperature = FloatOfNat(25)
    /\ SensorStarted(calls) # {} /\ SensorReadsIn(calls) # {}
    /\ sensor_on /\ s_metrics.temp_sensor_enabled

\* C36: while initialized, prev_total_run_time is 0 exactly when no
\* GetCpuUsage call has succeeded since the last initializing Init.
C36_ZeroMeansNoSample ==
    s_metrics.is_initialized =>
        (s_metrics.prev_total_run_time = 0 <=> cpu_calls = 0)

====
